---------------------------- MODULE Spec2Model ----------------------------
(***************************************************************************)
(* A model of the physical operators of ddb: the external merge sort       *)
(* (MergeSortPop), the hash equi-join (HashEqJoinPop) and the grouped      *)
(* aggregation (AggrPop), with the buffered reader they use.               *)
(*                                                                         *)
(* Each operator's execute() is a Python generator.  It is modelled as a   *)
(* state machine whose program counter names the place the generator is    *)
(* at; the consumer drives it (one action per step up to the next yield    *)
(* or the next temp-file operation) and may close it at a yield.           *)
(* Three specifications share the module: SpecSort, SpecJoin and SpecAggr. *)
(***************************************************************************)
EXTENDS Integers, Sequences, FiniteSets, Bags, TLC

VARIABLES
    \* ---- MergeSortPop ----
    ms_B,         \* self.num_memory_blocks
    ms_Bf,        \* self.num_memory_blocks_final
    ms_exprs,     \* self.exprs / self.orders_asc: sequence of [col, asc]
    ms_rowsize,   \* getsizeof(row) of the rows of the input
    ms_input,     \* rows self.input.execute() produces
    ms_pc,        \* where execute() is
    ms_pos,       \* number of input rows consumed by the BufferedReader
    ms_runs,      \* runs: list of run files (names <<level, run>>)
    ms_new_runs,  \* new_runs of the merge pass in progress
    ms_level,     \* level
    ms_group,     \* i of the for loop over merge groups
    ms_files,     \* temp transaction: run file name -> rows (live files)
    ms_rest,      \* final iter_merge: per run, the rows not yet output
    ms_out,       \* rows yielded to the consumer so far
    ms_mem,       \* blocks of rows the operator holds at this point
    \* ---- HashEqJoinPop ----
    hj_B,         \* self.num_memory_blocks
    hj_rowsize,   \* getsizeof(row) of the rows of the left input
    hj_left,      \* rows self.left.execute() produces
    hj_right,     \* rows self.right.execute() produces
    hj_hash,      \* blake2b on the strings hashed so far that can be hashed again
    hj_pc,        \* where execute() is
    hj_lparts,    \* left_partitions: partition id -> heap file name
    hj_rparts,    \* right_partitions: partition id -> heap file name
    hj_files,     \* temp transaction: partition file name -> rows (live files)
    hj_depth,     \* depth of the multi-pass loop
    hj_large,     \* large_part_ids
    hj_idx,       \* number of entries of large_part_ids already replayed
    hj_llarge,    \* local_large_part_ids
    hj_todo,      \* partition ids the probing loop has still to visit
    hj_done,      \* partition ids the probing loop has visited
    hj_pending,   \* matches of the partition being probed, not yet yielded
    hj_susp,      \* the generator is suspended at its yield
    hj_out,       \* rows yielded to the consumer so far
    \* ---- AggrPop ----
    ag_groupby,   \* self.groupby_exprs: sequence of input column numbers
    ag_input,     \* rows self.input.execute() produces
    ag_pc,        \* where execute() is
    ag_pos,       \* number of input rows whose processing is complete
    ag_started,   \* cur_groupby_vals is not None
    ag_cur,       \* cur_groupby_vals (when it is not None)
    ag_states,    \* aggr_states
    ag_buffers,   \* sort_buffers: per aggregate, the rows added and not cleared
    ag_fed,       \* per aggregate, the values _finalize_group last passed to add
    ag_out,       \* rows yielded to the consumer so far
    \* ---- plan construction ----
    pl_nodes,     \* the operators constructed so far, children before parents
    pl_call,      \* the last constructor call and its arguments
    pl_raised,    \* the exception the last constructor call raised, or "none"
    \* ---- temp files of two live operators ----
    tf_ops,       \* per operator: where its execute is and the files it holds
    \* ---- BufferedWriter ----
    bw_B,         \* self.num_memory_blocks
    bw_buffer,    \* self.buffer: the sizes of the rows held
    bw_num_bytes, \* self.num_bytes
    bw_num_blocks_flushed,  \* self.num_blocks_flushed
    bw_file,      \* the sizes of the rows appended to self.file
    bw_written,   \* history: the sizes of the rows write was called with
    \* ---- BufferedReader.iter_buffer ----
    br_B,         \* self.num_memory_blocks
    br_input,     \* the rows the input iterator produces
    br_pc,        \* where the generator is
    br_pos,       \* number of rows taken from the input iterator
    br_buffer,    \* buffer
    br_num_bytes, \* num_bytes
    br_yielded,   \* the buffers yielded so far
    \* ---- cached properties of the operators of a plan ----
    qc_children,  \* children() of every operator
    qc_cache,     \* per operator: whether compiled / estimated is in __dict__
    qc_call,      \* the last call
    qc_raised,    \* whether the last call raised AttributeError
    \* ---- ProfileContext and the generators profile_generator wraps ----
    pf_parent,    \* generator -> the generator that consumes it (0: the driver)
    pf_state,     \* generator -> where its wrap is
    pf_end,       \* generator -> how its wrap left the loop
    pf_base,      \* generator -> call_stack when gen_construct_begin was called
    pf_call_stack, \* profile_context.call_stack (a stat is its generator)
    pf_error      \* ProfileException('call stack integrity error') was raised

msvars == << ms_B, ms_Bf, ms_exprs, ms_rowsize, ms_input, ms_pc, ms_pos,
             ms_runs, ms_new_runs, ms_level, ms_group, ms_files, ms_rest,
             ms_out, ms_mem >>

hjvars == << hj_B, hj_rowsize, hj_left, hj_right, hj_hash, hj_pc, hj_lparts,
             hj_rparts, hj_files, hj_depth, hj_large, hj_idx, hj_llarge,
             hj_todo, hj_done, hj_pending, hj_susp, hj_out >>

agvars == << ag_groupby, ag_input, ag_pc, ag_pos, ag_started, ag_cur, ag_states,
             ag_buffers, ag_fed, ag_out >>

plvars == << pl_nodes, pl_call, pl_raised >>

tfvars == << tf_ops >>

bwvars == << bw_B, bw_buffer, bw_num_bytes, bw_num_blocks_flushed, bw_file,
             bw_written >>

brvars == << br_B, br_input, br_pc, br_pos, br_buffer, br_num_bytes,
             br_yielded >>

qcvars == << qc_children, qc_cache, qc_call, qc_raised >>

pfvars == << pf_parent, pf_state, pf_end, pf_base, pf_call_stack, pf_error >>

vars == << msvars, hjvars, agvars, plvars, tfvars, bwvars, brvars, qcvars,
           pfvars >>

\* what an action of one operator leaves alone: the other operators
ms_others == << hjvars, agvars, plvars, tfvars, bwvars, brvars, qcvars,
               pfvars >>
hj_others == << msvars, agvars, plvars, tfvars, bwvars, brvars, qcvars,
               pfvars >>
ag_others == << msvars, hjvars, plvars, tfvars, bwvars, brvars, qcvars,
               pfvars >>
pl_others == << msvars, hjvars, agvars, tfvars, bwvars, brvars, qcvars,
               pfvars >>
tf_others == << msvars, hjvars, agvars, plvars, bwvars, brvars, qcvars,
               pfvars >>
bw_others == << msvars, hjvars, agvars, plvars, tfvars, brvars, qcvars,
               pfvars >>
br_others == << msvars, hjvars, agvars, plvars, tfvars, bwvars, qcvars,
               pfvars >>
qc_others == << msvars, hjvars, agvars, plvars, tfvars, bwvars, brvars,
               pfvars >>
pf_others == << msvars, hjvars, agvars, plvars, tfvars, bwvars, brvars,
                qcvars >>

-----------------------------------------------------------------------------
(* Bounds of the model *)

MaxB == 4
MaxBf == 4
MaxRowSize == 7
MaxLen == 4
\* merge passes explored: level stays below this also when the loop of
\* execute does not end
MaxLevel == 4
MaxKey == 2
MaxJoinB == 2
MaxJoinRowSize == 3
MaxLeft == 2
MaxRight == 2
HashRange == 2
MaxAggLen == 3
MaxAggKey == 2
MaxAggVal == 2
MaxNodes == 3
MaxPlanB == 3
MaxK == 1
MaxTmpRuns == 3
MaxWriterB == 2
MaxWrites == 4
MaxReaderB == 2
MaxReaderLen == 4
MaxCacheNodes == 3
MaxProfNodes == 3

\* globals.BLOCK_SIZE, scaled down with the row sizes
BLOCK_SIZE == 2

-----------------------------------------------------------------------------
(* Generic helpers *)

Max(a, b) == IF a >= b THEN a ELSE b

\* math.ceil(a / b) for a >= 0, b > 0
CeilDiv(a, b) == (a + b - 1) \div b

Range(s) == { s[i] : i \in DOMAIN s }

RECURSIVE SeqsUpTo(_, _)
SeqsUpTo(S, n) ==
    IF n = 0 THEN { <<>> }
    ELSE LET shorter == SeqsUpTo(S, n - 1)
         IN  shorter \cup { Append(s, x) : s \in { t \in shorter : Len(t) = n - 1 }, x \in S }

RECURSIVE SeqToBag(_)
SeqToBag(s) ==
    IF s = <<>> THEN EmptyBag ELSE SetToBag({Head(s)}) (+) SeqToBag(Tail(s))

-----------------------------------------------------------------------------
(* MergeSortPop *)

\* MergeSortPop.__init__: num_memory_blocks_final or num_memory_blocks.
\* The argument 0 stands for both falsy arguments, None and 0.
MSInitBf(B, bf_arg) ==
    IF bf_arg = 0 THEN B ELSE bf_arg

\* QPop.column_in_child(expr, 0): the input column a sort expression is, or
\* 0 (None) for an expression that is not a column reference.  A sort
\* expression is [col, asc]: col is a column of the row, or 0 for the one
\* expression of the model that is not a column.
column_in_child(expr) ==
    IF expr.col \in {1, 2} THEN expr.col ELSE 0

\* the value the compiled code of a sort expression gives on a row: the
\* column, or for the expression that is not a column the parity of column 2
ExprValue(row, expr) ==
    IF expr.col = 0 THEN row[2] % 2 ELSE row[expr.col]

\* cmp_code: -1 if this goes before that, 0 if equal on every key, else 1
RECURSIVE ThisBeforeThat(_, _, _, _)
ThisBeforeThat(this, that, exprs, i) ==
    IF i > Len(exprs) THEN FALSE
    ELSE \/ /\ \A j \in 1..(i - 1) : ExprValue(this, exprs[j]) = ExprValue(that, exprs[j])
            /\ IF exprs[i].asc
               THEN ExprValue(this, exprs[i]) < ExprValue(that, exprs[i])
               ELSE ExprValue(this, exprs[i]) > ExprValue(that, exprs[i])
         \/ ThisBeforeThat(this, that, exprs, i + 1)

compare(this, that, exprs) ==
    IF ThisBeforeThat(this, that, exprs, 1) THEN -1
    ELSE IF \A j \in 1..Len(exprs) : ExprValue(this, exprs[j]) = ExprValue(that, exprs[j]) THEN 0
    ELSE 1

\* the sort expressions before the first one that is not an input column
RECURSIVE ResolvedKeys(_)
ResolvedKeys(exprs) ==
    IF exprs = <<>> \/ column_in_child(Head(exprs)) = 0 THEN <<>>
    ELSE << [col |-> column_in_child(Head(exprs)), asc |-> Head(exprs).asc] >>
         \o ResolvedKeys(Tail(exprs))

\* the entries of the input's ordering whose column is not among used
RECURSIVE UnusedOrdering(_, _)
UnusedOrdering(ordering, used) ==
    IF ordering = <<>> THEN <<>>
    ELSE IF Head(ordering).col \in used
         THEN UnusedOrdering(Tail(ordering), used)
         ELSE << Head(ordering) >>
              \o UnusedOrdering(Tail(ordering), used \cup {Head(ordering).col})

\* mutant of _infer_ordering_props: the input's ordering is appended even
\* after a key that is not an input column
InferOrderingPropsAcrossGap(exprs, input_ordering) ==
    LET ordered == ResolvedKeys(exprs)
    IN  ordered \o UnusedOrdering(input_ordering, { ordered[k].col : k \in DOMAIN ordered })

\* MergeSortPop._infer_ordering_props: (ordered_columns, ordered_asc) zipped
\* into a sequence of [col, asc]; input_ordering is the zipped ordering the
\* input declares
InferOrderingProps(exprs, input_ordering) ==
    LET ordered == ResolvedKeys(exprs)
    IN  IF Len(ordered) = Len(exprs)
        THEN ordered \o UnusedOrdering(input_ordering,
                                       { ordered[k].col : k \in DOMAIN ordered })
        ELSE ordered

\* q_cmp without the run-number tie-break
q_cmp_unstable(t1, t2, exprs) ==
    LET cmp_result == compare(t1[1], t2[1], exprs)
    IN  IF cmp_result # 0 THEN cmp_result
        ELSE (IF t2[2] > t1[2] THEN 1 ELSE 0) - (IF t1[2] > t2[2] THEN 1 ELSE 0)

\* q_cmp: entries are <<row, run #>>; ties on the keys go to the earlier run
q_cmp(t1, t2, exprs) ==
    LET cmp_result == compare(t1[1], t2[1], exprs)
    IN  IF cmp_result # 0 THEN cmp_result
        ELSE (IF t1[2] > t2[2] THEN 1 ELSE 0) - (IF t2[2] > t1[2] THEN 1 ELSE 0)

\* buffer.sort(key=sort_key): list.sort is a stable sort; insertion of each
\* row after the rows that do not compare greater
RECURSIVE InsertSorted(_, _, _)
InsertSorted(sorted, row, exprs) ==
    IF sorted = <<>> THEN << row >>
    ELSE IF compare(row, Head(sorted), exprs) < 0 THEN << row >> \o sorted
    ELSE << Head(sorted) >> \o InsertSorted(Tail(sorted), row, exprs)

RECURSIVE StableSort(_, _)
StableSort(buffer, exprs) ==
    IF buffer = <<>> THEN <<>>
    ELSE InsertSorted(StableSort(SubSeq(buffer, 1, Len(buffer) - 1), exprs),
                      buffer[Len(buffer)], exprs)

\* mutant of RowTooBig: no row is refused
RowTooBigNever(row_size, max_bytes) == FALSE

\* BufferedReader.iter_buffer: the test that raises ExecutorException
RowTooBig(row_size, max_bytes) == row_size > max_bytes

\* BufferedReader.iter_buffer from input row i on: the next buffer yielded,
\* the number of rows consumed, and whether a row was too big
RECURSIVE IterBuffer(_, _, _, _, _, _)
IterBuffer(input, i, buffer, num_bytes, row_size, max_bytes) ==
    IF i > Len(input) THEN [buffer |-> buffer, pos |-> i - 1, err |-> FALSE]
    ELSE IF RowTooBig(row_size, max_bytes)
         THEN [buffer |-> buffer, pos |-> i - 1, err |-> TRUE]
    ELSE IF num_bytes + row_size > max_bytes
         THEN [buffer |-> buffer, pos |-> i - 1, err |-> FALSE]
    ELSE IterBuffer(input, i + 1, Append(buffer, input[i]),
                    num_bytes + row_size, row_size, max_bytes)

\* PQueue.dequeue over the heads of the runs still holding rows: the run
\* whose entry is smallest under q_cmp
DequeueRun(rests, exprs) ==
    LET live == { i \in DOMAIN rests : rests[i] # <<>> }
    IN  CHOOSE i \in live :
            \A j \in live \ {i} :
                q_cmp(<< Head(rests[i]), i >>, << Head(rests[j]), j >>, exprs) < 0

\* iter_merge driven to exhaustion
RECURSIVE IterMerge(_, _)
IterMerge(rests, exprs) ==
    IF \A i \in DOMAIN rests : rests[i] = <<>> THEN <<>>
    ELSE LET i == DequeueRun(rests, exprs)
         IN  << Head(rests[i]) >> \o IterMerge([rests EXCEPT ![i] = Tail(@)], exprs)

\* a slice that takes as many runs as there are memory blocks
RunsSubsetWide(runs, i, B) ==
    SubSeq(runs, i * (B - 1) + 1,
           IF (i + 1) * (B - 1) + 1 <= Len(runs) THEN (i + 1) * (B - 1) + 1 ELSE Len(runs))

\* a slice that stops one run short of the group
RunsSubsetShort(runs, i, B) ==
    SubSeq(runs, i * (B - 1) + 1,
           IF (i + 1) * (B - 1) - 1 <= Len(runs) THEN (i + 1) * (B - 1) - 1 ELSE Len(runs))

\* runs[i * (B-1) : (i+1) * (B-1)]
RunsSubset(runs, i, B) ==
    SubSeq(runs, i * (B - 1) + 1,
           IF (i + 1) * (B - 1) <= Len(runs) THEN (i + 1) * (B - 1) ELSE Len(runs))

\* the contents of the given run files, in order
RunRows(files, names) == [ n \in DOMAIN names |-> files[names[n]] ]

\* mutant of DeleteFiles: no file is deleted
DeleteNoFiles(files, names) == files

\* delete_heap_file for each of the given names
DeleteFiles(files, names) ==
    [ f \in (DOMAIN files) \ Range(names) |-> files[f] ]

\* mutant of WriteFile: a file that exists is not truncated
WriteFileKeepsRows(files, name, rows) ==
    [ f \in (DOMAIN files) \cup {name} |->
        IF f = name
        THEN (IF name \in DOMAIN files THEN files[name] ELSE <<>>) \o rows
        ELSE files[f] ]

\* _tmp_run_file followed by the rows appended to it: the file is created
\* or truncated, then holds exactly these rows
WriteFile(files, name, rows) ==
    [ f \in (DOMAIN files) \cup {name} |-> IF f = name THEN rows ELSE files[f] ]

SortKeys == 1..MaxKey
\* the sorts: by column 1 either way, and by column 1 and the expression
\* that is not a column, in both orders
SortSpecs ==
    { << [col |-> 1, asc |-> TRUE] >>,
      << [col |-> 1, asc |-> FALSE] >>,
      << [col |-> 1, asc |-> TRUE], [col |-> 0, asc |-> TRUE] >>,
      << [col |-> 0, asc |-> FALSE], [col |-> 1, asc |-> TRUE] >> }

\* the input rows: <<sort key, position in the input>>
SortInputs ==
    { [ i \in 1..Len(ks) |-> << ks[i], i >> ] : ks \in SeqsUpTo(SortKeys, MaxLen) }

\* execute has not run yet
MSStart ==
    /\ ms_pc = "pass0"
    /\ ms_pos = 0
    /\ ms_runs = <<>>
    /\ ms_new_runs = <<>>
    /\ ms_level = 0
    /\ ms_group = 0
    /\ ms_files = << >>
    /\ ms_rest = <<>>
    /\ ms_out = <<>>
    /\ ms_mem = 0

MSInit ==
    /\ ms_B \in 3..MaxB
    /\ \E bf_arg \in 0..MaxBf : ms_Bf = MSInitBf(ms_B, bf_arg)
    /\ ms_exprs \in SortSpecs
    /\ ms_rowsize \in 1..MaxRowSize
    /\ ms_input \in SortInputs
    /\ MSStart

\* the constructor tests num_memory_blocks only: any integer is taken as the
\* budget of the final pass, a negative one too
MSAnyBudgetInit ==
    /\ ms_B \in 3..MaxB
    /\ \E bf_arg \in (-1)..MaxBf : ms_Bf = MSInitBf(ms_B, bf_arg)
    /\ ms_exprs \in SortSpecs
    /\ ms_rowsize \in 1..MaxRowSize
    /\ ms_input \in SortInputs
    /\ MSStart

\* a sort over an empty input that is constructed and never executed
MSIdle ==
    /\ ms_B = 3
    /\ ms_Bf = MSInitBf(3, 0)
    /\ ms_exprs = << [col |-> 1, asc |-> TRUE] >>
    /\ ms_rowsize = 1
    /\ ms_input = <<>>
    /\ MSStart

\* the next buffer of pass 0
MSNextBuffer ==
    IterBuffer(ms_input, ms_pos + 1, <<>>, 0, ms_rowsize, ms_B * BLOCK_SIZE)

\* an estimate that divides by the full budget at every merge pass
RECURSIVE EstimatedMergePassesByB(_, _, _)
EstimatedMergePassesByB(num_runs, B, Bf) ==
    IF num_runs > Bf
    THEN 1 + EstimatedMergePassesByB(CeilDiv(num_runs, B), B, Bf)
    ELSE 0

\* MergeSortPop.estimated: the passes the while loop adds to num_passes
RECURSIVE EstimatedMergePasses(_, _, _)
EstimatedMergePasses(num_runs, B, Bf) ==
    IF num_runs > Bf
    THEN 1 + EstimatedMergePasses(CeilDiv(num_runs, B - 1), B, Bf)
    ELSE 0

\* MergeSortPop.estimated: num_passes for an input of block_count blocks
EstimatedNumPasses(block_count, B, Bf) ==
    1 + EstimatedMergePasses(CeilDiv(block_count, B), B, Bf)

\* a loop test that lets one run more into the final pass
NeedsMergePassLate(num_runs, Bf) == num_runs > Bf + 1

\* while len(runs) > self.num_memory_blocks_final
NeedsMergePass(num_runs, Bf) == num_runs > Bf

\* where execute goes when the runs of a level are complete: another merge
\* pass while the loop test holds, else the final merge
MSAfterLevel(runs) ==
    IF NeedsMergePass(Len(runs), ms_Bf)
    THEN /\ ms_pc' = "merge"
         /\ ms_rest' = <<>>
         /\ ms_mem' = 0
    ELSE /\ ms_pc' = "final"
         /\ ms_rest' = RunRows(ms_files, runs)
         /\ ms_mem' = Len(runs)

\* pass 0: one buffer is read, sorted and written as a run
MSPass0Run ==
    /\ ms_pc = "pass0"
    /\ LET r == MSNextBuffer
           run == << 0, Len(ms_runs) >>
       IN  /\ ~r.err
           /\ Len(r.buffer) > 0
           /\ ms_pos' = r.pos
           /\ ms_runs' = Append(ms_runs, run)
           /\ ms_files' = WriteFile(ms_files, run, StableSort(r.buffer, ms_exprs))
           /\ ms_mem' = CeilDiv(Len(r.buffer) * ms_rowsize, BLOCK_SIZE)
    /\ UNCHANGED << ms_B, ms_Bf, ms_exprs, ms_rowsize, ms_input, ms_pc,
                    ms_new_runs, ms_level, ms_group, ms_rest, ms_out >>
    /\ UNCHANGED ms_others

\* pass 0: a row does not fit in num_memory_blocks blocks
MSPass0Error ==
    /\ ms_pc = "pass0"
    /\ MSNextBuffer.err
    /\ ms_pc' = "error"
    /\ ms_mem' = 0
    /\ UNCHANGED << ms_B, ms_Bf, ms_exprs, ms_rowsize, ms_input, ms_pos,
                    ms_runs, ms_new_runs, ms_level, ms_group, ms_files,
                    ms_rest, ms_out >>
    /\ UNCHANGED ms_others

\* pass 0: the input is exhausted
MSPass0End ==
    /\ ms_pc = "pass0"
    /\ LET r == MSNextBuffer IN ~r.err /\ Len(r.buffer) = 0
    /\ ms_level' = 1
    /\ ms_group' = 0
    /\ MSAfterLevel(ms_runs)
    /\ UNCHANGED << ms_B, ms_Bf, ms_exprs, ms_rowsize, ms_input, ms_pos,
                    ms_runs, ms_new_runs, ms_files, ms_out >>
    /\ UNCHANGED ms_others

\* a merge pass: group i of the runs is merged into a new run of this
\* level through a one-block writer, and its runs are deleted
MSMergeGroup ==
    /\ ms_pc = "merge"
    /\ ms_group < CeilDiv(Len(ms_runs), ms_B - 1)
    /\ LET runs_subset == RunsSubset(ms_runs, ms_group, ms_B)
           new_run == << ms_level, Len(ms_new_runs) >>
           merged == IterMerge(RunRows(ms_files, runs_subset), ms_exprs)
       IN  /\ ms_new_runs' = Append(ms_new_runs, new_run)
           /\ ms_files' = DeleteFiles(WriteFile(ms_files, new_run, merged), runs_subset)
           /\ ms_mem' = Len(runs_subset) + 1
    /\ ms_group' = ms_group + 1
    /\ UNCHANGED << ms_B, ms_Bf, ms_exprs, ms_rowsize, ms_input, ms_pc, ms_pos,
                    ms_runs, ms_level, ms_rest, ms_out >>
    /\ UNCHANGED ms_others

\* a merge pass ends: runs = new_runs, level += 1
MSMergeLevelEnd ==
    /\ ms_pc = "merge"
    /\ ms_group >= CeilDiv(Len(ms_runs), ms_B - 1)
    /\ ms_level < MaxLevel
    /\ ms_runs' = ms_new_runs
    /\ ms_new_runs' = <<>>
    /\ ms_level' = ms_level + 1
    /\ ms_group' = 0
    /\ MSAfterLevel(ms_new_runs)
    /\ UNCHANGED << ms_B, ms_Bf, ms_exprs, ms_rowsize, ms_input, ms_pos,
                    ms_files, ms_out >>
    /\ UNCHANGED ms_others

\* the final pass yields the next row of the merge of the remaining runs
MSFinalYield ==
    /\ ms_pc = "final"
    /\ \E i \in DOMAIN ms_rest : ms_rest[i] # <<>>
    /\ LET i == DequeueRun(ms_rest, ms_exprs)
       IN  /\ ms_out' = Append(ms_out, Head(ms_rest[i]))
           /\ ms_rest' = [ms_rest EXCEPT ![i] = Tail(@)]
    /\ UNCHANGED << ms_B, ms_Bf, ms_exprs, ms_rowsize, ms_input, ms_pc, ms_pos,
                    ms_runs, ms_new_runs, ms_level, ms_group, ms_files, ms_mem >>
    /\ UNCHANGED ms_others

\* the final merge is exhausted: the last runs are deleted and execute returns
MSFinalEnd ==
    /\ ms_pc = "final"
    /\ \A i \in DOMAIN ms_rest : ms_rest[i] = <<>>
    /\ ms_files' = DeleteFiles(ms_files, ms_runs)
    /\ ms_pc' = "done"
    /\ ms_mem' = 0
    /\ UNCHANGED << ms_B, ms_Bf, ms_exprs, ms_rowsize, ms_input, ms_pos,
                    ms_runs, ms_new_runs, ms_level, ms_group, ms_rest, ms_out >>
    /\ UNCHANGED ms_others

\* the consumer closes the generator while it is suspended at the yield of
\* the final pass: GeneratorExit is raised there and execute exits
MSClose ==
    /\ ms_pc = "final"
    /\ Len(ms_out) > 0
    /\ ms_pc' = "closed"
    /\ ms_mem' = 0
    /\ UNCHANGED << ms_B, ms_Bf, ms_exprs, ms_rowsize, ms_input, ms_pos,
                    ms_runs, ms_new_runs, ms_level, ms_group, ms_files,
                    ms_rest, ms_out >>
    /\ UNCHANGED ms_others

MSNext ==
    \/ MSPass0Run
    \/ MSPass0Error
    \/ MSPass0End
    \/ MSMergeGroup
    \/ MSMergeLevelEnd
    \/ MSFinalYield
    \/ MSFinalEnd
    \/ MSClose

-----------------------------------------------------------------------------
(* HashEqJoinPop *)

\* globals.DEFAULT_HASH_MAX_DEPTH
DEFAULT_HASH_MAX_DEPTH == 3

\* str() of a small non-negative integer
Str(n) == << "0", "1", "2", "3", "4", "5", "6", "7", "8", "9" >>[n + 1]

\* a right extractor that reads the wrong column
JoinValWrongRight(side, row) == IF side = "right" THEN row[2] ELSE row[1]

\* left_join_vals_exec / right_join_vals_exec: the join expression is the
\* first column on both sides
JoinVal(side, row) == row[1]

\* zip(left_exprs, right_exprs) resolved by column_in_child: the one join
\* pair is column 1 of the left input with column 1 of the right input
JoinColumns == << << 1, 1 >> >>

\* mutant of BothUniqueFlag: a unique left join column is enough
BothUniqueFlagLeftOnly(left_unique, right_unique) ==
    \E k \in DOMAIN JoinColumns : JoinColumns[k][1] \in left_unique

\* HashEqJoinPop.compiled: both_unique_flag
BothUniqueFlag(left_unique, right_unique) ==
    \E k \in DOMAIN JoinColumns :
        /\ JoinColumns[k][1] \in left_unique
        /\ JoinColumns[k][2] \in right_unique

\* HashEqJoinPop.compiled: unique_columns of the output, whose rows are a
\* left row followed by a right row
JoinUniqueColumns(left_unique, right_unique, col_i_offset) ==
    IF BothUniqueFlag(left_unique, right_unique)
    THEN left_unique \cup { col_i_offset + col_i : col_i \in right_unique }
    ELSE {}

\* the string _hash_for_partition_with_depth hashes
PartitionString(obj_to_hash, depth) == Str(obj_to_hash) \o Str(depth)

\* the string _hash_for_probing hashes
ProbingString(obj_to_hash) == Str(obj_to_hash) \o "probing"

\* blake2b is a fixed function whose values the model does not compute: the
\* value of a string is chosen when the string is first hashed and kept in
\* hj_hash for as long as the same string can be hashed again (a string
\* carries its salt, so the strings of a depth are not hashed at another).
\* These are the hash functions that agree with the values kept and give a
\* value to each of the strings needed next.
HashExtensions(needed) ==
    { hj_hash @@ e : e \in [ needed \ DOMAIN hj_hash -> 0..(HashRange - 1) ] }

\* capacity of _partition_one_pass
Capacity(B, depth) == IF depth = 0 THEN B ELSE B - 1

\* the name of the file _tmp_partition_file creates
PartitionFile(side, depth, partition_id) == << side, depth, partition_id >>

\* one iteration of the loop of _partition_one_pass.  acc holds partitions,
\* the files, heapfile_size_in_byte (sizes, with its insertion order)
PartitionRow(acc, side, depth, parent_part_id, row, h, B, row_size) ==
    LET local_part_id == h[PartitionString(JoinVal(side, row), depth)] % Capacity(B, depth)
        part_id == parent_part_id * B + local_part_id
        is_new == part_id \notin DOMAIN acc.partitions
        name == IF is_new THEN PartitionFile(side, depth, part_id)
                ELSE acc.partitions[part_id]
        old_rows == IF is_new THEN <<>> ELSE acc.files[name]
        seen == part_id \in DOMAIN acc.sizes
    IN  [ partitions |-> IF is_new THEN acc.partitions @@ (part_id :> name)
                         ELSE acc.partitions,
          files |-> WriteFile(acc.files, name, Append(old_rows, row)),
          sizes |-> IF seen THEN [acc.sizes EXCEPT ![part_id] = @ + row_size]
                    ELSE acc.sizes @@ (part_id :> row_size),
          order |-> IF seen THEN acc.order ELSE Append(acc.order, part_id) ]

RECURSIVE PartitionRows(_, _, _, _, _, _, _, _)
PartitionRows(acc, side, depth, parent_part_id, rows, h, B, row_size) ==
    IF rows = <<>> THEN acc
    ELSE PartitionRows(
             PartitionRow(acc, side, depth, parent_part_id, Head(rows), h, B, row_size),
             side, depth, parent_part_id, Tail(rows), h, B, row_size)

\* _partition_one_pass: the partitions and files after the pass (every
\* writer flushed) and the ids of the partitions written beyond the threshold
PartitionOnePass(side, depth, partitions, files, parent_part_id, rows, h, B, row_size) ==
    LET acc == PartitionRows([partitions |-> partitions, files |-> files,
                              sizes |-> << >>, order |-> <<>>],
                             side, depth, parent_part_id, rows, h, B, row_size)
    IN  [ partitions |-> acc.partitions,
          files |-> acc.files,
          large |-> SelectSeq(acc.order,
                              LAMBDA id : acc.sizes[id] > BLOCK_SIZE * (B - 1)) ]

\* the strings a partitioning pass over these rows hashes
PartitionStrings(side, rows, depth) ==
    { PartitionString(JoinVal(side, rows[i]), depth) : i \in DOMAIN rows }

\* a probe that trusts the hash alone
ProbeMatchHashOnly(left_row, right_row) == TRUE

\* the equality check on the raw join values of a pair found by its hash
ProbeMatch(left_row, right_row) ==
    JoinVal("left", left_row) = JoinVal("right", right_row)

\* the rows of the bucket of the hash table for this hash key, in the order
\* in which the left partition was scanned
Bucket(left_rows, hash_key, h) ==
    SelectSeq(left_rows, LAMBDA l : h[ProbingString(JoinVal("left", l))] = hash_key)

\* the rows the probing of one right row yields
RECURSIVE ProbeBucket(_, _)
ProbeBucket(bucket, right_row) ==
    IF bucket = <<>> THEN <<>>
    ELSE (IF ProbeMatch(Head(bucket), right_row)
          THEN << Head(bucket) \o right_row >> ELSE <<>>)
         \o ProbeBucket(Tail(bucket), right_row)

\* the rows the probing of one partition yields, in order
RECURSIVE ProbePartition(_, _, _)
ProbePartition(left_rows, right_rows, h) ==
    IF right_rows = <<>> THEN <<>>
    ELSE ProbeBucket(Bucket(left_rows,
                            h[ProbingString(JoinVal("right", Head(right_rows)))], h),
                     Head(right_rows))
         \o ProbePartition(left_rows, Tail(right_rows), h)

\* the join key values: the join only compares keys for equality and hashes
\* their strings, so two values give every relation between two rows
JoinKeys == {1, 2}

\* the input rows of one side: <<join key, position in the input>>
JoinInputs(n) ==
    { [ i \in 1..Len(ks) |-> << ks[i], i >> ] : ks \in SeqsUpTo(JoinKeys, n) }

\* execute has not run yet
HJStart ==
    /\ hj_hash = << >>
    /\ hj_pc = "part0"
    /\ hj_lparts = << >>
    /\ hj_rparts = << >>
    /\ hj_files = << >>
    /\ hj_depth = 0
    /\ hj_large = <<>>
    /\ hj_idx = 0
    /\ hj_llarge = <<>>
    /\ hj_todo = {}
    /\ hj_done = {}
    /\ hj_pending = <<>>
    /\ hj_susp = FALSE
    /\ hj_out = <<>>

HJInit ==
    /\ hj_B \in 1..MaxJoinB
    /\ hj_rowsize \in 1..MaxJoinRowSize
    /\ hj_left \in JoinInputs(MaxLeft)
    /\ hj_right \in JoinInputs(MaxRight)
    /\ HJStart

\* a join with three memory blocks, over inputs of up to three join keys
\* whose rows take a block and a half each
WideJoinBudgets == {3}
WideJoinRowSizes == {3}
WideLeftKeys == { << 1, 1 >>, << 1, 3, 2 >> }
WideRightKeys == { << >>, << 2, 1 >>, << 1, 2, 3 >> }

WideJoinInputs(keys) ==
    { [ i \in 1..Len(ks) |-> << ks[i], i >> ] : ks \in keys }

HJWideInit ==
    /\ hj_B \in WideJoinBudgets
    /\ hj_rowsize \in WideJoinRowSizes
    /\ hj_left \in WideJoinInputs(WideLeftKeys)
    /\ hj_right \in WideJoinInputs(WideRightKeys)
    /\ HJStart

\* a join over empty inputs that is constructed and never executed
HJIdle ==
    /\ hj_B = 1
    /\ hj_rowsize = 1
    /\ hj_left = <<>>
    /\ hj_right = <<>>
    /\ HJStart

\* mutant of InDepthRange: one more level is partitioned
InDepthRangeOneMore(depth) == depth <= DEFAULT_HASH_MAX_DEPTH

\* depth in range(1, DEFAULT_HASH_MAX_DEPTH), for depth >= 1
InDepthRange(depth) == depth < DEFAULT_HASH_MAX_DEPTH

\* where execute goes when the loop over large_part_ids of a depth is to
\* start: the next depth of range(1, DEFAULT_HASH_MAX_DEPTH), else probing
HJEnterDepth(depth, lparts, rparts) ==
    IF InDepthRange(depth)
    THEN /\ hj_pc' = "repart"
         /\ hj_todo' = {}
    ELSE /\ hj_pc' = "probe"
         /\ hj_todo' = (DOMAIN lparts) \cap (DOMAIN rparts)

\* first pass: both inputs are partitioned at depth 0
HJFirstPass ==
    /\ hj_pc = "part0"
    /\ \E h \in HashExtensions(PartitionStrings("left", hj_left, 0)
                               \cup PartitionStrings("right", hj_right, 0)) :
          LET l == PartitionOnePass("left", 0, << >>, hj_files, 0, hj_left, h,
                                    hj_B, hj_rowsize)
              r == PartitionOnePass("right", 0, << >>, l.files, 0, hj_right, h,
                                    hj_B, hj_rowsize)
          IN  /\ hj_hash' = << >>
              /\ hj_lparts' = l.partitions
              /\ hj_rparts' = r.partitions
              /\ hj_files' = r.files
              /\ hj_large' = l.large
              /\ HJEnterDepth(1, l.partitions, r.partitions)
    /\ hj_depth' = 1
    /\ hj_idx' = 0
    /\ hj_llarge' = <<>>
    /\ UNCHANGED << hj_B, hj_rowsize, hj_left, hj_right, hj_done, hj_pending,
                    hj_susp, hj_out >>
    /\ UNCHANGED hj_others

\* the partition id the multi-pass loop replays next
HJParent == hj_large[hj_idx + 1]

\* multi-pass: a too-large partition is popped on both sides, replayed at
\* this depth into child partitions, and its two files are deleted
HJReplay ==
    /\ hj_pc = "repart"
    /\ hj_idx < Len(hj_large)
    /\ HJParent \in DOMAIN hj_lparts
    /\ HJParent \in DOMAIN hj_rparts
    /\ Capacity(hj_B, hj_depth) > 0
    /\ LET part_id == HJParent
           left_heapfile == hj_lparts[part_id]
           right_heapfile == hj_rparts[part_id]
           lpopped == [ p \in (DOMAIN hj_lparts) \ {part_id} |-> hj_lparts[p] ]
           rpopped == [ p \in (DOMAIN hj_rparts) \ {part_id} |-> hj_rparts[p] ]
       IN  \E h \in HashExtensions(
                      PartitionStrings("left", hj_files[left_heapfile], hj_depth)
                      \cup PartitionStrings("right", hj_files[right_heapfile], hj_depth)) :
              LET l == PartitionOnePass("left", hj_depth, lpopped, hj_files, part_id,
                                        hj_files[left_heapfile], h, hj_B, hj_rowsize)
                  r == PartitionOnePass("right", hj_depth, rpopped, l.files, part_id,
                                        hj_files[right_heapfile], h, hj_B, hj_rowsize)
              IN  /\ hj_hash' = h
                  /\ hj_lparts' = l.partitions
                  /\ hj_rparts' = r.partitions
                  /\ hj_files' = DeleteFiles(r.files, << left_heapfile, right_heapfile >>)
                  /\ hj_llarge' = hj_llarge \o l.large
    /\ hj_idx' = hj_idx + 1
    /\ UNCHANGED << hj_B, hj_rowsize, hj_left, hj_right, hj_pc, hj_depth, hj_large,
                    hj_todo, hj_done, hj_pending, hj_susp, hj_out >>
    /\ UNCHANGED hj_others

\* multi-pass: the replay raises.  dict.pop raises KeyError when the id is
\* in neither or only one of the two dicts (the left one is popped first),
\* and the modulo by a capacity of 0 raises ZeroDivisionError
HJReplayError ==
    /\ hj_pc = "repart"
    /\ hj_idx < Len(hj_large)
    /\ \/ HJParent \notin DOMAIN hj_lparts
       \/ HJParent \notin DOMAIN hj_rparts
       \/ Capacity(hj_B, hj_depth) = 0
    /\ hj_lparts' = [ p \in (DOMAIN hj_lparts) \ {HJParent} |-> hj_lparts[p] ]
    /\ hj_rparts' = IF HJParent \in DOMAIN hj_lparts
                    THEN [ p \in (DOMAIN hj_rparts) \ {HJParent} |-> hj_rparts[p] ]
                    ELSE hj_rparts
    /\ hj_pc' = "error"
    /\ UNCHANGED << hj_B, hj_rowsize, hj_left, hj_right, hj_hash, hj_files, hj_depth,
                    hj_large, hj_idx, hj_llarge, hj_todo, hj_done, hj_pending,
                    hj_susp, hj_out >>
    /\ UNCHANGED hj_others

\* multi-pass: the loop over large_part_ids of this depth ends
HJDepthEnd ==
    /\ hj_pc = "repart"
    /\ hj_idx >= Len(hj_large)
    /\ hj_large' = hj_llarge
    /\ hj_llarge' = <<>>
    /\ hj_idx' = 0
    /\ hj_depth' = hj_depth + 1
    /\ HJEnterDepth(hj_depth + 1, hj_lparts, hj_rparts)
    /\ hj_hash' = << >>
    /\ UNCHANGED << hj_B, hj_rowsize, hj_left, hj_right, hj_lparts, hj_rparts,
                    hj_files, hj_done, hj_pending, hj_susp, hj_out >>
    /\ UNCHANGED hj_others

\* probing: the hash table of the next partition present on both sides is
\* built and the right partition is streamed against it
HJProbe ==
    /\ hj_pc = "probe"
    /\ hj_pending = <<>>
    /\ \E part_id \in hj_todo :
          LET left_rows == hj_files[hj_lparts[part_id]]
              right_rows == hj_files[hj_rparts[part_id]]
          IN  \E h \in HashExtensions(
                         { ProbingString(JoinVal("left", left_rows[i])) : i \in DOMAIN left_rows }
                         \cup { ProbingString(JoinVal("right", right_rows[i])) : i \in DOMAIN right_rows }) :
                 /\ hj_hash' = h
                 /\ hj_pending' = ProbePartition(left_rows, right_rows, h)
                 /\ hj_todo' = hj_todo \ {part_id}
                 /\ hj_done' = hj_done \cup {part_id}
    /\ hj_susp' = FALSE
    /\ UNCHANGED << hj_B, hj_rowsize, hj_left, hj_right, hj_pc, hj_lparts, hj_rparts,
                    hj_files, hj_depth, hj_large, hj_idx, hj_llarge, hj_out >>
    /\ UNCHANGED hj_others

\* probing: the next matching pair is yielded
HJYield ==
    /\ hj_pc = "probe"
    /\ hj_pending # <<>>
    /\ hj_out' = Append(hj_out, Head(hj_pending))
    /\ hj_pending' = Tail(hj_pending)
    /\ hj_susp' = TRUE
    /\ UNCHANGED << hj_B, hj_rowsize, hj_left, hj_right, hj_hash, hj_pc, hj_lparts,
                    hj_rparts, hj_files, hj_depth, hj_large, hj_idx, hj_llarge,
                    hj_todo, hj_done >>
    /\ UNCHANGED hj_others

\* probing is over: the partition files of both dicts are deleted and
\* execute returns
HJFinish ==
    /\ hj_pc = "probe"
    /\ hj_pending = <<>>
    /\ hj_todo = {}
    /\ hj_files' = [ f \in (DOMAIN hj_files) \ (Range(hj_lparts) \cup Range(hj_rparts))
                       |-> hj_files[f] ]
    /\ hj_pc' = "done"
    /\ hj_susp' = FALSE
    /\ UNCHANGED << hj_B, hj_rowsize, hj_left, hj_right, hj_hash, hj_lparts, hj_rparts,
                    hj_depth, hj_large, hj_idx, hj_llarge, hj_todo, hj_done,
                    hj_pending, hj_out >>
    /\ UNCHANGED hj_others

\* the consumer closes the generator while it is suspended at its yield:
\* GeneratorExit is raised there and execute exits
HJClose ==
    /\ hj_pc = "probe"
    /\ hj_susp
    /\ hj_pc' = "closed"
    /\ hj_susp' = FALSE
    /\ UNCHANGED << hj_B, hj_rowsize, hj_left, hj_right, hj_hash, hj_lparts, hj_rparts,
                    hj_files, hj_depth, hj_large, hj_idx, hj_llarge, hj_todo, hj_done,
                    hj_pending, hj_out >>
    /\ UNCHANGED hj_others

HJNext ==
    \/ HJFirstPass
    \/ HJReplay
    \/ HJReplayError
    \/ HJDepthEnd
    \/ HJProbe
    \/ HJYield
    \/ HJFinish
    \/ HJClose

-----------------------------------------------------------------------------
(* AggrPop *)

\* the value of an aggregate over no input that has no number to give
NULL == -1

\* self.aggr_exprs: COUNT(v), SUM(v), COUNT(DISTINCT v) and MEDIAN(v) over
\* the second column of the input
AggrExprs == << "COUNT", "SUM", "COUNT_DISTINCT", "MEDIAN" >>

\* aggr_expr.is_incremental()
IsIncremental(a) == a \in {"COUNT", "SUM"}

\* aggr_expr.is_distinct
IsDistinct(a) == a = "COUNT_DISTINCT"

\* the init closure of an aggregate; MEDIAN keeps the values it was given
AggrInit(a) ==
    IF a = "SUM" THEN NULL
    ELSE IF a = "MEDIAN" THEN <<>>
    ELSE 0

\* the add closure of an aggregate
AggrAdd(a, state, new_val) ==
    IF a = "SUM" THEN (IF state = NULL THEN new_val ELSE state + new_val)
    ELSE IF a = "MEDIAN" THEN Append(state, new_val)
    ELSE state + 1

\* the finalize closure of an aggregate; MEDIAN takes the (lower) middle of
\* the values in the order add received them
AggrFinalize(a, state) ==
    IF a = "MEDIAN"
    THEN (IF state = <<>> THEN NULL ELSE state[(Len(state) + 1) \div 2])
    ELSE state

\* AggrPop.compiled: preserved_input_columns, from input column to output
\* column.  The group-by expressions are input columns; an aggregate is
\* not a column reference, so no aggregate output preserves a column.  Of
\* two expressions on one column the later one is recorded.
PreservedInputColumns(groupby) ==
    [ c \in { groupby[i] : i \in DOMAIN groupby } |->
        CHOOSE i \in DOMAIN groupby :
            /\ groupby[i] = c
            /\ \A j \in DOMAIN groupby : groupby[j] = c => j <= i ]

\* mutant of AggrOrderingProps: a column that is not preserved is skipped
\* and the columns after it are still taken
RECURSIVE AggrOrderingPropsSkipsGap(_, _, _)
AggrOrderingPropsSkipsGap(groupby, ordered_columns, ordered_asc) ==
    IF ordered_columns = <<>> \/ ordered_asc = <<>>
    THEN [ ordered_columns |-> <<>>, ordered_asc |-> <<>> ]
    ELSE LET rest == AggrOrderingPropsSkipsGap(groupby, Tail(ordered_columns),
                                               Tail(ordered_asc))
         IN  IF Head(ordered_columns) \in DOMAIN PreservedInputColumns(groupby)
             THEN [ ordered_columns |->
                        << PreservedInputColumns(groupby)[Head(ordered_columns)] >>
                        \o rest.ordered_columns,
                    ordered_asc |-> << Head(ordered_asc) >> \o rest.ordered_asc ]
             ELSE rest

\* AggrPop.compiled: ordered_columns and ordered_asc, from those of the
\* input: the loop stops at the first column that is not preserved
RECURSIVE AggrOrderingProps(_, _, _)
AggrOrderingProps(groupby, ordered_columns, ordered_asc) ==
    IF ordered_columns = <<>> \/ ordered_asc = <<>>
    THEN [ ordered_columns |-> <<>>, ordered_asc |-> <<>> ]
    ELSE IF Head(ordered_columns) \in DOMAIN PreservedInputColumns(groupby)
         THEN LET rest == AggrOrderingProps(groupby, Tail(ordered_columns),
                                            Tail(ordered_asc))
              IN  [ ordered_columns |->
                        << PreservedInputColumns(groupby)[Head(ordered_columns)] >>
                        \o rest.ordered_columns,
                    ordered_asc |-> << Head(ordered_asc) >> \o rest.ordered_asc ]
         ELSE [ ordered_columns |-> <<>>, ordered_asc |-> <<>> ]

\* mutant of MarksGroupColumn: any GROUP BY marks the first column
MarksGroupColumnAlways(groupby) == Len(groupby) >= 1

\* AggrPop.compiled: the test for marking the group-by column unique
MarksGroupColumn(groupby) == Len(groupby) = 1

\* AggrPop.compiled: unique_columns, for the unique_columns of the input
AggrUniqueColumns(groupby, input_unique) ==
    { PreservedInputColumns(groupby)[c] :
        c \in input_unique \cap DOMAIN PreservedInputColumns(groupby) }
    \cup (IF MarksGroupColumn(groupby) THEN {1} ELSE {})

\* groupby_vals of a row
GroupbyVals(row) == [ i \in 1..Len(ag_groupby) |-> row[ag_groupby[i]] ]

\* aggr_inputs of a row
AggrInputs(row) == [ i \in 1..Len(AggrExprs) |-> row[2] ]

\* mutant of GroupChanged: every row opens a group
GroupChangedAlways(started, groupby_vals, cur) == TRUE

\* groupby_vals != cur_groupby_vals, where cur_groupby_vals may be None
GroupChanged(started, groupby_vals, cur) == (~started) \/ groupby_vals # cur

\* mutant of NewGroupStates: the states of the group before are kept
NewGroupStatesStale(old) == IF old = <<>> THEN [ i \in 1..Len(AggrExprs) |-> AggrInit(AggrExprs[i]) ] ELSE old

\* aggr_states of a group that starts
NewGroupStates(old) == [ i \in 1..Len(AggrExprs) |-> AggrInit(AggrExprs[i]) ]

\* mutant of AddRow: no value reaches a sort buffer
AddRowNoBuffer(states, buffers, aggr_inputs) ==
    [ states  |-> [ i \in 1..Len(AggrExprs) |->
                      IF IsIncremental(AggrExprs[i])
                      THEN AggrAdd(AggrExprs[i], states[i], aggr_inputs[i])
                      ELSE states[i] ],
      buffers |-> buffers ]

\* the loop over the aggregates for one row: an incremental aggregate
\* updates its state, another one adds the value to its sort buffer
AddRow(states, buffers, aggr_inputs) ==
    [ states  |-> [ i \in 1..Len(AggrExprs) |->
                      IF IsIncremental(AggrExprs[i])
                      THEN AggrAdd(AggrExprs[i], states[i], aggr_inputs[i])
                      ELSE states[i] ],
      buffers |-> [ i \in 1..Len(AggrExprs) |->
                      IF IsIncremental(AggrExprs[i])
                      THEN buffers[i]
                      ELSE Append(buffers[i], << aggr_inputs[i] >>) ] ]

\* ExtSortBuffer.iter_and_clear: the rows added, sorted, and deduplicated
\* when the buffer was made with deduplicate
RECURSIVE SortedRows(_, _)
SortedRows(rows, deduplicate) ==
    IF rows = <<>> THEN <<>>
    ELSE LET rest == SortedRows(Tail(rows), deduplicate)
             r    == Head(rows)
             k    == Cardinality({ i \in DOMAIN rest : rest[i][1] < r[1] })
         IN  IF deduplicate /\ r \in Range(rest) THEN rest
             ELSE SubSeq(rest, 1, k) \o << r >> \o SubSeq(rest, k + 1, Len(rest))

\* new_val of the rows _finalize_group iterates for each aggregate, in turn;
\* none for an incremental aggregate
FedValues(buffers) ==
    [ i \in 1..Len(AggrExprs) |->
        IF IsIncremental(AggrExprs[i]) THEN <<>>
        ELSE LET rows == SortedRows(buffers[i], IsDistinct(AggrExprs[i]))
             IN  [ n \in DOMAIN rows |-> rows[n][1] ] ]

\* the add closure applied to the rows of a sort buffer in turn
RECURSIVE FeedRows(_, _, _)
FeedRows(a, state, rows) ==
    IF rows = <<>> THEN state
    ELSE FeedRows(a, AggrAdd(a, state, Head(rows)[1]), Tail(rows))

\* _finalize_group, first loop: aggr_states once the sort buffers of the
\* aggregates that have one were fed to their add closures
FedStates(buffers, states) ==
    [ i \in 1..Len(AggrExprs) |->
        IF IsIncremental(AggrExprs[i]) THEN states[i]
        ELSE FeedRows(AggrExprs[i], states[i],
                      SortedRows(buffers[i], IsDistinct(AggrExprs[i]))) ]

\* _finalize_group: the final values of the aggregates
FinalizeGroup(buffers, states) ==
    [ i \in 1..Len(AggrExprs) |->
        AggrFinalize(AggrExprs[i], FedStates(buffers, states)[i]) ]

\* mutant of ClearedBuffers: a sort buffer still holds a value
StaleBuffers ==
    [ i \in 1..Len(AggrExprs) |->
        IF IsIncremental(AggrExprs[i]) THEN <<>> ELSE << << 1 >> >> ]

\* the sort buffers after _finalize_group: each one was iterated and cleared
ClearedBuffers == [ i \in 1..Len(AggrExprs) |-> <<>> ]

AggKeys == 1..MaxAggKey
AggVals == 1..MaxAggVal

\* the input rows: <<group key, value>>
AggInputs == SeqsUpTo(AggKeys \X AggVals, MaxAggLen)

\* execute has not run yet
AGStart ==
    /\ ag_pc = "start"
    /\ ag_pos = 0
    /\ ag_started = FALSE
    /\ ag_cur = <<>>
    /\ ag_states = <<>>
    /\ ag_buffers = <<>>
    /\ ag_fed = <<>>
    /\ ag_out = <<>>

AGInit ==
    /\ ag_groupby \in { <<>>, << 1 >>, << 2 >>, << 1, 2 >> }
    /\ ag_input \in AggInputs
    /\ AGStart

\* an aggregation over an empty input that is constructed and never executed
AGIdle ==
    /\ ag_groupby = <<>>
    /\ ag_input = <<>>
    /\ AGStart

\* mutant of StartsGroupAtOnce: no group is started before the first row
StartsGroupAtOnceNever(groupby) == FALSE

\* mutant of StartsGroupAtOnce: a group is always started before the first row
StartsGroupAtOnceAlways(groupby) == TRUE

\* the test for the special handling when there is no GROUP BY
StartsGroupAtOnce(groupby) == Len(groupby) = 0

\* execute up to its loop: the sort buffers are made, and with no GROUP BY
\* the one group is started at once
AGBegin ==
    /\ ag_pc = "start"
    /\ ag_buffers' = ClearedBuffers
    /\ ag_started' = StartsGroupAtOnce(ag_groupby)
    /\ ag_cur' = <<>>
    /\ ag_states' = IF StartsGroupAtOnce(ag_groupby) THEN NewGroupStates(<<>>) ELSE <<>>
    /\ ag_pc' = "loop"
    /\ UNCHANGED << ag_groupby, ag_input, ag_pos, ag_fed, ag_out >>
    /\ UNCHANGED ag_others

\* the row the loop is at
AGRow == ag_input[ag_pos + 1]

\* a row of the group in progress, or the first row of the first group: the
\* group is started if need be and the row is added
AGRowAdd ==
    /\ ag_pc = "loop"
    /\ ag_pos < Len(ag_input)
    /\ ~(GroupChanged(ag_started, GroupbyVals(AGRow), ag_cur) /\ ag_started)
    /\ LET changed == GroupChanged(ag_started, GroupbyVals(AGRow), ag_cur)
           states  == IF changed THEN NewGroupStates(ag_states) ELSE ag_states
           added   == AddRow(states, ag_buffers, AggrInputs(AGRow))
       IN  /\ ag_cur' = IF changed THEN GroupbyVals(AGRow) ELSE ag_cur
           /\ ag_states' = added.states
           /\ ag_buffers' = added.buffers
    /\ ag_started' = TRUE
    /\ ag_pos' = ag_pos + 1
    /\ UNCHANGED << ag_groupby, ag_input, ag_pc, ag_fed, ag_out >>
    /\ UNCHANGED ag_others

\* a row of another group arrives: the group in progress is finalized and
\* its row is yielded
AGGroupEnd ==
    /\ ag_pc = "loop"
    /\ ag_pos < Len(ag_input)
    /\ GroupChanged(ag_started, GroupbyVals(AGRow), ag_cur)
    /\ ag_started
    /\ ag_out' = Append(ag_out, ag_cur \o FinalizeGroup(ag_buffers, ag_states))
    /\ ag_fed' = FedValues(ag_buffers)
    /\ ag_buffers' = ClearedBuffers
    /\ ag_states' = FedStates(ag_buffers, ag_states)
    /\ ag_pc' = "yield"
    /\ UNCHANGED << ag_groupby, ag_input, ag_pos, ag_started, ag_cur >>
    /\ UNCHANGED ag_others

\* the consumer asks for the next row: the new group is started with the
\* row that ended the group before
AGResume ==
    /\ ag_pc = "yield"
    /\ LET added == AddRow(NewGroupStates(ag_states), ag_buffers, AggrInputs(AGRow))
       IN  /\ ag_states' = added.states
           /\ ag_buffers' = added.buffers
    /\ ag_cur' = GroupbyVals(AGRow)
    /\ ag_pos' = ag_pos + 1
    /\ ag_pc' = "loop"
    /\ UNCHANGED << ag_groupby, ag_input, ag_started, ag_fed, ag_out >>
    /\ UNCHANGED ag_others

\* the input ends: the last group, if one was started, is finalized and its
\* row is yielded
AGInputEnd ==
    /\ ag_pc = "loop"
    /\ ag_pos = Len(ag_input)
    /\ IF ag_started
       THEN /\ ag_out' = Append(ag_out, ag_cur \o FinalizeGroup(ag_buffers, ag_states))
            /\ ag_fed' = FedValues(ag_buffers)
            /\ ag_buffers' = ClearedBuffers
            /\ ag_states' = FedStates(ag_buffers, ag_states)
            /\ ag_pc' = "yieldlast"
       ELSE /\ ag_pc' = "done"
            /\ UNCHANGED << ag_out, ag_buffers, ag_fed, ag_states >>
    /\ UNCHANGED << ag_groupby, ag_input, ag_pos, ag_started, ag_cur >>
    /\ UNCHANGED ag_others

\* the consumer asks for a row after the last one: execute returns
AGReturn ==
    /\ ag_pc = "yieldlast"
    /\ ag_pc' = "done"
    /\ UNCHANGED << ag_groupby, ag_input, ag_pos, ag_started, ag_cur, ag_states,
                    ag_buffers, ag_fed, ag_out >>
    /\ UNCHANGED ag_others

\* the consumer closes the generator while it is suspended at a yield
AGClose ==
    /\ ag_pc \in {"yield", "yieldlast"}
    /\ ag_pc' = "closed"
    /\ UNCHANGED << ag_groupby, ag_input, ag_pos, ag_started, ag_cur, ag_states,
                    ag_buffers, ag_fed, ag_out >>
    /\ UNCHANGED ag_others

AGNext ==
    \/ AGBegin
    \/ AGRowAdd
    \/ AGGroupEnd
    \/ AGResume
    \/ AGInputEnd
    \/ AGReturn
    \/ AGClose

-----------------------------------------------------------------------------
(* Plan construction: QPop and the constructors of the operators *)

\* a constructed operator:
\*   kind      its class
\*   children  children(), as positions in pl_nodes
\*   B, Bf, K  num_memory_blocks, num_memory_blocks_final, num_non_incremental
\*   io        self_reads + self_writes of estimated.blocks
\*   extra     estimated.blocks_extra_init.overall, NULL when it is None
\*   compiled  compiled is cached (by __post_init__)
Node(kind, children, B, Bf, K, io, extra) ==
    [ kind |-> kind, children |-> children, B |-> B, Bf |-> Bf, K |-> K,
      io |-> io, extra |-> extra, compiled |-> TRUE ]

\* mutant of MergeSortRaises: two blocks are accepted
MergeSortRaisesBelowTwo(B) == B < 2

\* MergeSortPop.__init__ raises ExecutorException
MergeSortRaises(B) == B <= 2

\* mutant of AggrRaises: one block for each sort buffer is accepted
AggrRaisesBelowK(B, K) == B < K

\* AggrPop.__init__ raises ExecutorException
AggrRaises(B, K) == B < 3 * K

\* the blocks execute gives to the sort buffer of one non-incremental aggregate
SortBufferBlocks(B, K) == B \div K

\* memory_blocks_required() of an operator
MemoryBlocksRequired(n) ==
    CASE n.kind = "Leaf"       -> n.B
      [] n.kind = "Filter"     -> 0
      [] n.kind = "MergeSort"  -> Max(n.B, n.Bf)
      [] n.kind = "Aggr"       -> n.B
      [] n.kind = "HashEqJoin" -> n.B

\* mutant of TotalMemoryBlocksRequired: only the first child is counted
RECURSIVE TotalMemoryFirstChild(_, _)
TotalMemoryFirstChild(nodes, i) ==
    MemoryBlocksRequired(nodes[i])
    + (IF nodes[i].children = <<>> THEN 0
       ELSE TotalMemoryFirstChild(nodes, nodes[i].children[1]))

\* the sum of total_memory_blocks_required() of the children from the k-th on
RECURSIVE TotalMemoryBlocksRequired(_, _)
RECURSIVE TotalMemoryOfChildren(_, _, _)
TotalMemoryOfChildren(nodes, children, k) ==
    IF k > Len(children) THEN 0
    ELSE TotalMemoryBlocksRequired(nodes, children[k])
         + TotalMemoryOfChildren(nodes, children, k + 1)

\* total_memory_blocks_required() of the operator at position i
TotalMemoryBlocksRequired(nodes, i) ==
    MemoryBlocksRequired(nodes[i]) + TotalMemoryOfChildren(nodes, nodes[i].children, 1)

\* the operators of the plan rooted at position i
RECURSIVE Reachable(_, _)
Reachable(nodes, i) ==
    {i} \cup UNION { Reachable(nodes, nodes[i].children[k]) : k \in DOMAIN nodes[i].children }

\* estimated of the operator at position i cannot be computed: FilterPop and
\* AggrPop build it with QPop.StatsInBlocks, an attribute QPop does not
\* have, and every operator reads the estimated of its children
EstimatedRaises(nodes, i) ==
    \E j \in Reachable(nodes, i) : nodes[j].kind \in {"Filter", "Aggr"}

\* estimated.blocks.overall of the operator at position i
RECURSIVE Overall(_, _)
Overall(nodes, i) ==
    nodes[i].io
    + (IF Len(nodes[i].children) >= 1 THEN Overall(nodes, nodes[i].children[1]) ELSE 0)
    + (IF Len(nodes[i].children) >= 2 THEN Overall(nodes, nodes[i].children[2]) ELSE 0)

\* estimated_cost of the operator at position i: the exception it raises,
\* or "none" and the cost.  The set of first-pass extras is a set of
\* StatsInBlocks, a dataclass with eq and without frozen, which has no hash:
\* testing the membership of one, or adding one, raises TypeError.
EstimatedCost(nodes, i) ==
    IF EstimatedRaises(nodes, i)
    THEN [ raised |-> "AttributeError", cost |-> 0 ]
    ELSE IF \E j \in Reachable(nodes, i) : nodes[j].extra # NULL
    THEN [ raised |-> "TypeError", cost |-> 0 ]
    ELSE [ raised |-> "none", cost |-> 0 + Overall(nodes, i) ]

PlanBudgets == 0..MaxPlanB

\* num_memory_blocks of a HashEqJoinPop: the smallest and the largest
JoinPlanBudgets == {1, MaxPlanB}

\* the I/O estimates of an operator's own work, and the overall of its
\* first-pass extras: the cost only adds them up, so one value that counts
\* and one that does not (0, or None for the extras) tell every sum apart
IOEstimates == {0, 1}
ExtraInits == {NULL, 1}

\* num_memory_blocks_final as given: 0 stands for None; the other value is
\* larger than every num_memory_blocks
PlanFinalBudgets == {0, MaxPlanB + 1}

\* num_memory_blocks of an AggrPop with K aggregates that are not
\* incremental: what K asks for, one less and one more
AggrBudgets(K) == { B \in (3 * K - 1)..(3 * K + 1) : B >= 0 }

NoCall == [ kind |-> "none", B |-> 0, bf_arg |-> 0, K |-> 0 ]

\* no operator has been constructed
PLIdle ==
    /\ pl_nodes = <<>>
    /\ pl_call = NoCall
    /\ pl_raised = "none"

\* a constructor call that returns the operator
PLConstructed(node, call) ==
    /\ pl_nodes' = Append(pl_nodes, node)
    /\ pl_call' = call
    /\ pl_raised' = "none"

\* a constructor call that raises: no operator comes to exist
PLRaised(call) ==
    /\ pl_nodes' = pl_nodes
    /\ pl_call' = call
    /\ pl_raised' = "ExecutorException"

\* an operator without children (a scan): its memory, its I/O estimate and
\* its first-pass extras are its own
PLLeaf ==
    /\ Len(pl_nodes) < MaxNodes
    /\ \E io \in IOEstimates, extra \in ExtraInits :
          PLConstructed(Node("Leaf", <<>>, 1, 0, 0, io, extra),
                        [ kind |-> "Leaf", B |-> 1, bf_arg |-> 0, K |-> 0 ])
    /\ UNCHANGED pl_others

\* FilterPop(input, cond)
PLFilter ==
    /\ Len(pl_nodes) < MaxNodes
    /\ \E c \in DOMAIN pl_nodes :
          PLConstructed(Node("Filter", << c >>, 0, 0, 0, 0, NULL),
                        [ kind |-> "Filter", B |-> 0, bf_arg |-> 0, K |-> 0 ])
    /\ UNCHANGED pl_others

\* MergeSortPop(input, exprs, orders_asc, num_memory_blocks, num_memory_blocks_final)
PLMergeSort ==
    /\ Len(pl_nodes) < MaxNodes
    /\ \E c \in DOMAIN pl_nodes, B \in PlanBudgets, bf_arg \in PlanFinalBudgets,
          io \in IOEstimates :
          LET call == [ kind |-> "MergeSort", B |-> B, bf_arg |-> bf_arg, K |-> 0 ]
          IN  IF MergeSortRaises(B)
              THEN PLRaised(call)
              ELSE PLConstructed(Node("MergeSort", << c >>, B, MSInitBf(B, bf_arg),
                                      0, io, NULL), call)
    /\ UNCHANGED pl_others

\* AggrPop(input, groupby_exprs, aggr_exprs, column_names, num_memory_blocks)
\* with K aggregates that are not incremental
PLAggr ==
    /\ Len(pl_nodes) < MaxNodes
    /\ \E c \in DOMAIN pl_nodes, K \in 0..MaxK : \E B \in AggrBudgets(K) :
          LET call == [ kind |-> "Aggr", B |-> B, bf_arg |-> 0, K |-> K ]
          IN  IF AggrRaises(B, K)
              THEN PLRaised(call)
              ELSE PLConstructed(Node("Aggr", << c >>, B, 0, K, 0, NULL), call)
    /\ UNCHANGED pl_others

\* HashEqJoinPop(left, right, left_exprs, right_exprs, num_memory_blocks)
PLHashEqJoin ==
    /\ Len(pl_nodes) < MaxNodes
    /\ \E l \in DOMAIN pl_nodes, r \in DOMAIN pl_nodes, B \in JoinPlanBudgets,
          io \in IOEstimates :
          PLConstructed(Node("HashEqJoin", << l, r >>, B, 0, 0, io, NULL),
                        [ kind |-> "HashEqJoin", B |-> B, bf_arg |-> 0, K |-> 0 ])
    /\ UNCHANGED pl_others

PLNext ==
    \/ PLLeaf
    \/ PLFilter
    \/ PLMergeSort
    \/ PLAggr
    \/ PLHashEqJoin

-----------------------------------------------------------------------------
(* Temp file names of simultaneously live operators *)

\* the addresses id(self) of the two operators: distinct for two objects that
\* are alive at the same time, and one hex rendering a prefix of the other
TmpIds == {1, 17}
TmpOps == 1..2

\* num_memory_blocks of the operators that create temp files
TmpSortBudgets == {3}
TmpSortFinalBudgets == {1, 2}
TmpJoinBudgets == {3}

HexDigits ==
    << "0", "1", "2", "3", "4", "5", "6", "7",
       "8", "9", "a", "b", "c", "d", "e", "f" >>

RECURSIVE HexStr(_)
HexStr(n) ==
    IF n < 16 THEN HexDigits[n + 1]
    ELSE HexStr(n \div 16) \o HexDigits[(n % 16) + 1]

\* hex(n)
Hex(n) == "0x" \o HexStr(n)

\* an int in an f-string
RECURSIVE Dec(_)
Dec(n) == IF n < 10 THEN Str(n) ELSE Dec(n \div 10) \o Str(n % 10)

\* a recipe that leaves out the operator
TmpRunNameNoId(id, level, run) == ".tmp-" \o Dec(level) \o "-" \o Dec(run)

\* the name _tmp_run_file(level, run) gives the file
TmpRunName(id, level, run) ==
    ".tmp-" \o Hex(id) \o "-" \o Dec(level) \o "-" \o Dec(run)

\* the name _tmp_partition_file(side, depth, partition_id) gives the file
TmpPartitionName(id, side, depth, partition_id) ==
    ".tmp-" \o Hex(id) \o "-" \o side \o "-" \o Dec(depth) \o "-"
        \o Dec(partition_id)

RECURSIVE AscendingSeq(_)
AscendingSeq(S) ==
    IF S = {} THEN << >>
    ELSE LET least == CHOOSE x \in S : \A y \in S : x <= y
         IN << least >> \o AscendingSeq(S \ {least})

NoParts == [ p \in {} |-> "" ]

\* the inputs of a partitioning pass: the left rows of the first pass hash
\* to the first k partitions; the one left partition that may be too large
\* is the least one; at depth 0 the right input either has rows for the same
\* partitions as the left one or has no row
TmpFirstLeftIds(B) == { 0..(k - 1) : k \in 0..B }
TmpLargeIds(L) ==
    {{}} \cup { {p} : p \in { q \in L : \A r \in L : q <= r } }
TmpRightIds(L, depth) == IF depth = 0 THEN {L, {}} ELSE {L}

\* an operator before its execute generator has run
TmpOperator(kind, id, B, Bf, R) ==
    [ kind |-> kind, id |-> id, B |-> B, Bf |-> Bf, R |-> R, pc |-> "start",
      level |-> 0, group |-> 0, runs |-> << >>, new_runs |-> << >>,
      lparts |-> NoParts, rparts |-> NoParts, large |-> << >>,
      llarge |-> << >>, idx |-> 0, depth |-> 0, live |-> {},
      shared |-> FALSE ]

TmpOperators(id) ==
    { TmpOperator("sort", id, B, Bf, R) :
        B \in TmpSortBudgets, Bf \in TmpSortFinalBudgets, R \in 0..MaxTmpRuns }
    \cup { TmpOperator("join", id, B, 0, 0) : B \in TmpJoinBudgets }

TFInit ==
    tf_ops \in { f \in [ TmpOps -> UNION { TmpOperators(id) : id \in TmpIds } ] :
                   f[1].id # f[2].id }

TFIdle == tf_ops = << >>

\* heap_file(..., create_if_not_exists=True) followed by truncate(): the
\* file of that name comes to exist, or is emptied when it exists already
TFCreate(op, names) ==
    [ op EXCEPT !.live = @ \cup names,
                !.shared = @ \/ (names \cap op.live # {}) ]

Names(files) == { files[i] : i \in DOMAIN files }

\* pass 0 writes the next sorted run
TFSortRun ==
    /\ \E o \in TmpOps :
        LET op == tf_ops[o]
            run == TmpRunName(op.id, 0, Len(op.runs))
        IN /\ op.kind = "sort"
           /\ op.pc \in {"start", "pass0"}
           /\ Len(op.runs) < op.R
           /\ tf_ops' = [ tf_ops EXCEPT ![o] =
                 [ TFCreate(op, {run}) EXCEPT !.pc = "pass0",
                                              !.runs = Append(@, run) ] ]
    /\ UNCHANGED tf_others

\* the input is exhausted: level = 1 and the while loop is entered or not
TFSortPass0End ==
    /\ \E o \in TmpOps :
        LET op == tf_ops[o]
        IN /\ op.kind = "sort"
           /\ op.pc \in {"start", "pass0"}
           /\ Len(op.runs) = op.R
           /\ tf_ops' = [ tf_ops EXCEPT ![o] =
                 [ op EXCEPT !.pc = IF NeedsMergePass(Len(op.runs), op.Bf)
                                    THEN "merge" ELSE "final",
                             !.level = 1, !.group = 0,
                             !.new_runs = << >> ] ]
    /\ UNCHANGED tf_others

\* one iteration of the for loop of a merge pass
TFSortMergeGroup ==
    /\ \E o \in TmpOps :
        LET op == tf_ops[o]
            runs_subset == RunsSubset(op.runs, op.group, op.B)
            new_run == TmpRunName(op.id, op.level, Len(op.new_runs))
            created == TFCreate(op, {new_run})
        IN /\ op.kind = "sort"
           /\ op.pc = "merge"
           /\ op.group < CeilDiv(Len(op.runs), op.B - 1)
           /\ tf_ops' = [ tf_ops EXCEPT ![o] =
                 [ created EXCEPT !.new_runs = Append(@, new_run),
                                  !.group = @ + 1,
                                  !.live = @ \ Names(runs_subset) ] ]
    /\ UNCHANGED tf_others

\* runs = new_runs; level += 1
TFSortLevelEnd ==
    /\ \E o \in TmpOps :
        LET op == tf_ops[o]
        IN /\ op.kind = "sort"
           /\ op.pc = "merge"
           /\ op.group = CeilDiv(Len(op.runs), op.B - 1)
           /\ tf_ops' = [ tf_ops EXCEPT ![o] =
                 [ op EXCEPT !.pc = IF NeedsMergePass(Len(op.new_runs), op.Bf)
                                    THEN "merge" ELSE "final",
                             !.runs = op.new_runs, !.new_runs = << >>,
                             !.level = @ + 1, !.group = 0 ] ]
    /\ UNCHANGED tf_others

\* the final merge has streamed its rows: the remaining runs are deleted
TFSortFinalEnd ==
    /\ \E o \in TmpOps :
        LET op == tf_ops[o]
        IN /\ op.kind = "sort"
           /\ op.pc = "final"
           /\ tf_ops' = [ tf_ops EXCEPT ![o] =
                 [ op EXCEPT !.pc = "done", !.runs = << >>,
                             !.live = @ \ Names(op.runs) ] ]
    /\ UNCHANGED tf_others

\* the partitions a pass adds to the dict: a file is created for an id that
\* is not in the dict yet
TFPartitions(op, side, partitions, ids) ==
    [ p \in (DOMAIN partitions) \cup ids |->
        IF p \in DOMAIN partitions THEN partitions[p]
        ELSE TmpPartitionName(op.id, side, op.depth, p) ]

TFNewNames(partitions, after) ==
    { after[p] : p \in (DOMAIN after) \ (DOMAIN partitions) }

\* the first pass on both sides: the ids the rows hash to
TFJoinFirstPass ==
    /\ \E o \in TmpOps :
        LET op == tf_ops[o]
        IN /\ op.kind = "join"
           /\ op.pc = "start"
           /\ \E L \in TmpFirstLeftIds(Capacity(op.B, 0)) :
                \E R \in TmpRightIds(L, 0), large \in TmpLargeIds(L) :
                   LET lparts == TFPartitions(op, "left", NoParts, L)
                       rparts == TFPartitions(op, "right", NoParts, R)
                       created == TFCreate(TFCreate(op,
                                      TFNewNames(NoParts, lparts)),
                                      TFNewNames(NoParts, rparts))
                   IN tf_ops' = [ tf_ops EXCEPT ![o] =
                        [ created EXCEPT
                            !.pc = IF InDepthRange(1) THEN "repart"
                                   ELSE "probe",
                            !.depth = 1, !.idx = 0,
                            !.lparts = lparts, !.rparts = rparts,
                            !.large = AscendingSeq(large) ] ]
    /\ UNCHANGED tf_others

\* one iteration of the inner loop: the parent is popped on both sides,
\* replayed into child partitions, and its two files are deleted
TFJoinReplay ==
    /\ \E o \in TmpOps :
        LET op == tf_ops[o]
        IN /\ op.kind = "join"
           /\ op.pc = "repart"
           /\ op.idx < Len(op.large)
           /\ LET part_id == op.large[op.idx + 1]
                  ids == { part_id * op.B + l :
                             l \in 0..(Capacity(op.B, op.depth) - 1) }
              IN /\ part_id \in DOMAIN op.lparts
                 /\ part_id \in DOMAIN op.rparts
                 /\ \E L \in (SUBSET ids) \ {{}} :
                      \E R \in TmpRightIds(L, op.depth),
                         large \in TmpLargeIds(L) :
                        LET lpopped == [ p \in (DOMAIN op.lparts) \ {part_id}
                                           |-> op.lparts[p] ]
                            rpopped == [ p \in (DOMAIN op.rparts) \ {part_id}
                                           |-> op.rparts[p] ]
                            lparts == TFPartitions(op, "left", lpopped, L)
                            rparts == TFPartitions(op, "right", rpopped, R)
                            created == TFCreate(TFCreate(op,
                                           TFNewNames(lpopped, lparts)),
                                           TFNewNames(rpopped, rparts))
                        IN tf_ops' = [ tf_ops EXCEPT ![o] =
                             [ created EXCEPT
                                 !.idx = @ + 1,
                                 !.lparts = lparts, !.rparts = rparts,
                                 !.llarge = @ \o AscendingSeq(large),
                                 !.live = @ \ { op.lparts[part_id],
                                                op.rparts[part_id] } ] ]
    /\ UNCHANGED tf_others

\* dict.pop raises KeyError: the parent has no partition on one side. The
\* exception leaves execute: its locals are gone and its files stay
TFJoinReplayError ==
    /\ \E o \in TmpOps :
        LET op == tf_ops[o]
        IN /\ op.kind = "join"
           /\ op.pc = "repart"
           /\ op.idx < Len(op.large)
           /\ \/ op.large[op.idx + 1] \notin DOMAIN op.lparts
              \/ op.large[op.idx + 1] \notin DOMAIN op.rparts
           /\ tf_ops' = [ tf_ops EXCEPT ![o] =
                 [ op EXCEPT !.pc = "error",
                             !.lparts = NoParts, !.rparts = NoParts,
                             !.large = << >>, !.llarge = << >> ] ]
    /\ UNCHANGED tf_others

\* large_part_ids = local_large_part_ids, and the next depth or probing
TFJoinDepthEnd ==
    /\ \E o \in TmpOps :
        LET op == tf_ops[o]
        IN /\ op.kind = "join"
           /\ op.pc = "repart"
           /\ op.idx = Len(op.large)
           /\ tf_ops' = [ tf_ops EXCEPT ![o] =
                 [ op EXCEPT !.pc = IF InDepthRange(op.depth + 1)
                                    THEN "repart" ELSE "probe",
                             !.depth = @ + 1, !.idx = 0,
                             !.large = op.llarge, !.llarge = << >> ] ]
    /\ UNCHANGED tf_others

\* probing is over: every partition file of both dicts is deleted and
\* execute returns
TFJoinFinish ==
    /\ \E o \in TmpOps :
        LET op == tf_ops[o]
        IN /\ op.kind = "join"
           /\ op.pc = "probe"
           /\ tf_ops' = [ tf_ops EXCEPT ![o] =
                 [ op EXCEPT !.pc = "done",
                             !.lparts = NoParts, !.rparts = NoParts,
                             !.large = << >>,
                             !.live = (@ \ { op.lparts[p] : p \in DOMAIN op.lparts })
                                         \ { op.rparts[p] : p \in DOMAIN op.rparts } ] ]
    /\ UNCHANGED tf_others

TFNext ==
    \/ TFSortRun
    \/ TFSortPass0End
    \/ TFSortMergeGroup
    \/ TFSortLevelEnd
    \/ TFSortFinalEnd
    \/ TFJoinFirstPass
    \/ TFJoinReplay
    \/ TFJoinReplayError
    \/ TFJoinDepthEnd
    \/ TFJoinFinish

-----------------------------------------------------------------------------
(* BufferedWriter *)

\* the total size of a list of rows whose sizes are given
RECURSIVE BufferBytes(_)
BufferBytes(sizes) ==
    IF sizes = << >> THEN 0 ELSE Head(sizes) + BufferBytes(Tail(sizes))

\* a test that looks at the bytes held before the row was appended
WriterFullBeforeRow(num_bytes, row_size, max_bytes) ==
    num_bytes - row_size > max_bytes

\* BufferedWriter.write: the test that flushes, made after the row is
\* appended and its size added to num_bytes
WriterFull(num_bytes, row_size, max_bytes) ==
    num_bytes + row_size > max_bytes

\* mutant of BatchAppend: the row written last is appended alone
BatchAppendLast(file, buffer) ==
    IF buffer = << >> THEN file ELSE Append(file, buffer[Len(buffer)])

\* BufferedWriter.flush: self.file.batch_append(self.buffer)
BatchAppend(file, buffer) == file \o buffer

BWStart ==
    /\ bw_buffer = << >>
    /\ bw_num_bytes = 0
    /\ bw_num_blocks_flushed = 0
    /\ bw_file = << >>
    /\ bw_written = << >>

BWInit ==
    /\ bw_B \in 1..MaxWriterB
    /\ BWStart

BWIdle ==
    /\ bw_B = 1
    /\ BWStart

\* write(row) for a row that fits the budget, with the flush it may make
BWWrite ==
    /\ Len(bw_written) < MaxWrites
    /\ \E row_size \in 1..(bw_B * BLOCK_SIZE) :
         LET buffer == Append(bw_buffer, row_size)
             num_bytes == bw_num_bytes + row_size
         IN /\ bw_written' = Append(bw_written, row_size)
            /\ IF WriterFull(num_bytes, row_size, bw_B * BLOCK_SIZE)
               THEN /\ bw_file' = BatchAppend(bw_file, buffer)
                    /\ bw_num_blocks_flushed' = bw_num_blocks_flushed + 1
                    /\ bw_buffer' = << >>
                    /\ bw_num_bytes' = 0
               ELSE /\ bw_buffer' = buffer
                    /\ bw_num_bytes' = num_bytes
                    /\ UNCHANGED << bw_file, bw_num_blocks_flushed >>
    /\ UNCHANGED bw_B
    /\ UNCHANGED bw_others

\* flush() called by the owner of the writer
BWFlush ==
    /\ bw_num_blocks_flushed < MaxWrites
    /\ bw_file' = BatchAppend(bw_file, bw_buffer)
    /\ bw_num_blocks_flushed' = bw_num_blocks_flushed + 1
    /\ bw_buffer' = << >>
    /\ bw_num_bytes' = 0
    /\ UNCHANGED << bw_B, bw_written >>
    /\ UNCHANGED bw_others

BWNext ==
    \/ BWWrite
    \/ BWFlush

-----------------------------------------------------------------------------
(* BufferedReader *)

\* a test that lets the buffer grow past the budget before it is yielded
ReaderFullLate(num_bytes, row_size, max_bytes) == num_bytes > max_bytes

\* BufferedReader.iter_buffer: the test that yields the buffer
ReaderFull(num_bytes, row_size, max_bytes) ==
    num_bytes + row_size > max_bytes

\* the rows of an input whose row sizes are given: a row is its size and
\* its position in the input
ReaderRows(sizes) == [ i \in DOMAIN sizes |-> << sizes[i], i >> ]

RowBytes(buffer) == BufferBytes([ i \in DOMAIN buffer |-> buffer[i][1] ])

\* iter_buffer from the point where the for loop asks the input for row i:
\* what next() ends with, the buffer at that point and the number of rows
\* taken from the input
RECURSIVE ReaderRun(_, _, _, _, _)
ReaderRun(input, i, buffer, num_bytes, max_bytes) ==
    IF i > Len(input)
    THEN [ kind |-> IF Len(buffer) > 0 THEN "last" ELSE "end",
           buffer |-> buffer, num_bytes |-> num_bytes, pos |-> Len(input) ]
    ELSE LET row_size == input[i][1]
         IN IF RowTooBig(row_size, max_bytes)
            THEN [ kind |-> "raise", buffer |-> buffer,
                   num_bytes |-> num_bytes, pos |-> i ]
            ELSE IF ReaderFull(num_bytes, row_size, max_bytes)
            THEN [ kind |-> "yield", buffer |-> buffer,
                   num_bytes |-> num_bytes, pos |-> i ]
            ELSE ReaderRun(input, i + 1, Append(buffer, input[i]),
                           num_bytes + row_size, max_bytes)

\* what next() does from where the generator is suspended: after a yield
\* inside the loop the buffer is cleared and the row that did not fit is
\* appended before the loop goes on
ReaderNext ==
    IF br_pc = "yielded"
    THEN ReaderRun(br_input, br_pos + 1, << br_input[br_pos] >>,
                   br_input[br_pos][1], br_B * BLOCK_SIZE)
    ELSE ReaderRun(br_input, br_pos + 1, << >>, 0, br_B * BLOCK_SIZE)

BRStart ==
    /\ br_pc = "start"
    /\ br_pos = 0
    /\ br_buffer = << >>
    /\ br_num_bytes = 0
    /\ br_yielded = << >>

BRInit ==
    /\ br_B \in 1..MaxReaderB
    /\ br_input \in { ReaderRows(sizes) :
                        sizes \in SeqsUpTo(1..(br_B * BLOCK_SIZE + 1),
                                           MaxReaderLen) }
    /\ BRStart

BRIdle ==
    /\ br_B = 1
    /\ br_input = << >>
    /\ BRStart

BRSuspended(r, pc) ==
    /\ br_pc' = pc
    /\ br_pos' = r.pos
    /\ br_buffer' = r.buffer
    /\ br_num_bytes' = r.num_bytes
    /\ UNCHANGED << br_B, br_input >>
    /\ UNCHANGED br_others

\* next() ends at the yield inside the loop: a row did not fit
BRYield ==
    /\ br_pc \in {"start", "yielded"}
    /\ ReaderNext.kind = "yield"
    /\ br_yielded' = Append(br_yielded, ReaderNext.buffer)
    /\ BRSuspended(ReaderNext, "yielded")

\* next() ends at the yield after the loop: the input is exhausted
BRYieldLast ==
    /\ br_pc \in {"start", "yielded"}
    /\ ReaderNext.kind = "last"
    /\ br_yielded' = Append(br_yielded, ReaderNext.buffer)
    /\ BRSuspended(ReaderNext, "last")

\* next() raises ExecutorException: a row is bigger than the budget
BRRaise ==
    /\ br_pc \in {"start", "yielded"}
    /\ ReaderNext.kind = "raise"
    /\ UNCHANGED br_yielded
    /\ BRSuspended(ReaderNext, "error")

\* the generator returns: after the last buffer, or at once on no input
BREnd ==
    /\ \/ br_pc = "last"
       \/ br_pc = "start" /\ ReaderNext.kind = "end"
    /\ br_pc' = "done"
    /\ UNCHANGED << br_B, br_input, br_pos, br_buffer, br_num_bytes,
                    br_yielded >>
    /\ UNCHANGED br_others

BRNext ==
    \/ BRYield
    \/ BRYieldLast
    \/ BRRaise
    \/ BREnd

-----------------------------------------------------------------------------
(* Cached properties of QPop *)

QCNodes == 1..MaxCacheNodes

\* children() of every operator of a plan, children before parents: a
\* chain, a join of two leaves, and a plan whose leaf has two parents
QCChain == [ n \in QCNodes |-> IF n = 1 THEN << >> ELSE << n - 1 >> ]
QCFork == [ n \in QCNodes |->
              IF n = MaxCacheNodes THEN << n - 2, n - 1 >>
              ELSE IF n < MaxCacheNodes - 1 /\ n > 1 THEN << n - 1 >>
              ELSE << >> ]
QCShared == [ n \in QCNodes |->
                IF n = MaxCacheNodes THEN << n - 1, 1 >>
                ELSE IF n > 1 THEN << n - 1 >> ELSE << >> ]
QCPlans == {QCChain, QCFork, QCShared}

\* the operators of the plan rooted at n, n included
RECURSIVE QCDescendants(_, _)
QCDescendants(children, n) ==
    {n} \cup UNION { QCDescendants(children, children[n][i]) :
                       i \in DOMAIN children[n] }

\* a del that removes the attribute when it is cached and is silent when
\* it is not
DelRaisesNever(cached) == FALSE

\* del self.compiled, del self.estimated on a functools.cached_property:
\* the value is an entry of the instance __dict__, and deleting an entry
\* that is not there raises AttributeError
DelRaises(cached) == ~cached

\* void_cached_props(shallow) on operator n: the cache afterwards and
\* whether AttributeError left the call
RECURSIVE VoidCachedProps(_, _, _, _)
RECURSIVE VoidChildren(_, _, _, _)
VoidCachedProps(children, cache, n, shallow) ==
    IF DelRaises(cache[n].compiled)
    THEN [ cache |-> cache, raised |-> TRUE ]
    ELSE LET c1 == [ cache EXCEPT ![n].compiled = FALSE ]
         IN IF DelRaises(c1[n].estimated)
            THEN [ cache |-> c1, raised |-> TRUE ]
            ELSE LET c2 == [ c1 EXCEPT ![n].estimated = FALSE ]
                 IN IF shallow THEN [ cache |-> c2, raised |-> FALSE ]
                    ELSE VoidChildren(children, c2, n, 1)

VoidChildren(children, cache, n, i) ==
    IF i > Len(children[n]) THEN [ cache |-> cache, raised |-> FALSE ]
    ELSE LET r == VoidCachedProps(children, cache, children[n][i], FALSE)
         IN IF r.raised THEN r
            ELSE VoidChildren(children, r.cache, n, i + 1)

QCNoCall == [ op |-> "none", n |-> 0, shallow |-> FALSE ]

\* the plan right after construction: __post_init__ of every operator has
\* accessed compiled, and estimated was not accessed
QCInit ==
    /\ qc_children \in QCPlans
    /\ qc_cache = [ n \in QCNodes |-> [ compiled |-> TRUE, estimated |-> FALSE ] ]
    /\ qc_call = QCNoCall
    /\ qc_raised = FALSE

QCIdle ==
    /\ qc_children = << >>
    /\ qc_cache = << >>
    /\ qc_call = QCNoCall
    /\ qc_raised = FALSE

\* n.compiled is accessed: it is computed, from the compiled properties of
\* the children, where it is not cached
QCCompiled ==
    /\ \E n \in QCNodes :
         /\ qc_cache' = [ m \in QCNodes |->
                IF m \in QCDescendants(qc_children, n)
                THEN [ qc_cache[m] EXCEPT !.compiled = TRUE ]
                ELSE qc_cache[m] ]
         /\ qc_call' = [ op |-> "compiled", n |-> n, shallow |-> FALSE ]
    /\ qc_raised' = FALSE
    /\ UNCHANGED qc_children
    /\ UNCHANGED qc_others

\* n.estimated is accessed: it is computed, from the estimates of the
\* children and the compiled properties, where it is not cached
QCEstimated ==
    /\ \E n \in QCNodes :
         /\ qc_cache' = [ m \in QCNodes |->
                IF m \in QCDescendants(qc_children, n)
                THEN [ compiled |-> TRUE, estimated |-> TRUE ]
                ELSE qc_cache[m] ]
         /\ qc_call' = [ op |-> "estimated", n |-> n, shallow |-> FALSE ]
    /\ qc_raised' = FALSE
    /\ UNCHANGED qc_children
    /\ UNCHANGED qc_others

\* n.void_cached_props(shallow)
QCVoid ==
    /\ \E n \in QCNodes, shallow \in BOOLEAN :
         LET r == VoidCachedProps(qc_children, qc_cache, n, shallow)
         IN /\ qc_cache' = r.cache
            /\ qc_raised' = r.raised
            /\ qc_call' = [ op |-> "void", n |-> n, shallow |-> shallow ]
    /\ UNCHANGED qc_children
    /\ UNCHANGED qc_others

QCNext ==
    \/ QCCompiled
    \/ QCEstimated
    \/ QCVoid

-----------------------------------------------------------------------------
(* profile.py: ProfileContext and profile_generator *)

\* the profiled generators of a run: one per operator of the plan
PFNodes == DOMAIN pf_parent

\* the plans: every operator but the root is consumed by an earlier one
PFPlans ==
    { p \in [ 1..MaxProfNodes -> 0..(MaxProfNodes - 1) ] :
        \A i \in 1..MaxProfNodes : p[i] < i /\ (p[i] = 0 <=> i = 1) }

PFChildren(i) == { c \in PFNodes : pf_parent[c] = i }

\* the body of wrap is between its first next() and its end
PFInBody(i) == pf_state[i] \in {"running", "finishing"}

\* the frame of wrap i runs: it is in its body and no generator it
\* consumes is
PFRuns(i) ==
    /\ PFInBody(i)
    /\ \A c \in PFChildren(i) : ~ PFInBody(c)

\* the wrapped generator of i is executing inside next(it)
PFInNext(i) == pf_state[i] = "running" /\ PFRuns(i)

\* the one that calls next() or close() on generator i is at it: the wrapped
\* generator of the parent, or the driver of the root when nothing runs
PFConsumerAt(i) ==
    IF pf_parent[i] = 0
    THEN \A j \in PFNodes : ~ PFInBody(j)
    ELSE PFInNext(pf_parent[i])

\* an exception raised by a generator i consumes has reached the wrapped
\* generator of i, which catches none
PFExceptionIn(i) ==
    \E c \in PFChildren(i) : pf_state[c] = "finished" /\ pf_end[c] = "raised"

\* `self.call_stack[-1] != stat` of call_end, gen_construct_end and
\* gen_next_end (an empty list raises as well)
PFIntegrityError(call_stack, stat) ==
    \/ call_stack = <<>>
    \/ call_stack[Len(call_stack)] # stat

\* the check and self.call_stack.pop() of the same methods
PFPop(call_stack, stat) ==
    IF PFIntegrityError(call_stack, stat) THEN call_stack
    ELSE SubSeq(call_stack, 1, Len(call_stack) - 1)

PFInit ==
    /\ pf_parent \in PFPlans
    /\ pf_state = [ i \in 1..MaxProfNodes |-> "new" ]
    /\ pf_end = [ i \in 1..MaxProfNodes |-> "none" ]
    /\ pf_base = [ i \in 1..MaxProfNodes |-> <<>> ]
    /\ pf_call_stack = <<>>
    /\ pf_error = FALSE

\* no profiled generator exists
PFIdle ==
    /\ pf_parent = << >>
    /\ pf_state = << >>
    /\ pf_end = << >>
    /\ pf_base = << >>
    /\ pf_call_stack = <<>>
    /\ pf_error = FALSE

\* next() on generator i.  The first one starts the body of wrap:
\* gen_construct_begin pushes the stat, the generator is constructed,
\* gen_construct_end checks and pops; then gen_next_begin pushes the stat
\* and next(it) is entered
PFNextCall ==
    /\ ~ pf_error
    /\ \E i \in PFNodes :
         /\ pf_state[i] \in {"new", "suspended"}
         /\ PFConsumerAt(i)
         /\ IF pf_parent[i] = 0 THEN TRUE ELSE ~ PFExceptionIn(pf_parent[i])
         /\ LET constructed == IF pf_state[i] = "new"
                               THEN PFPop(Append(pf_call_stack, i), i)
                               ELSE pf_call_stack
                failed == pf_state[i] = "new"
                          /\ PFIntegrityError(Append(pf_call_stack, i), i)
            IN /\ pf_error' = failed
               /\ pf_call_stack' = IF failed THEN constructed
                                   ELSE Append(constructed, i)
               /\ pf_base' = IF pf_state[i] = "new"
                             THEN [pf_base EXCEPT ![i] = pf_call_stack]
                             ELSE pf_base
               /\ pf_state' = [pf_state EXCEPT ![i] = "running"]
    /\ UNCHANGED << pf_parent, pf_end >>
    /\ UNCHANGED pf_others

\* next(it) returns a value: gen_next_end checks and pops, wrap yields
PFYield ==
    /\ ~ pf_error
    /\ \E i \in PFNodes :
         /\ PFInNext(i)
         /\ ~ PFExceptionIn(i)
         /\ pf_error' = PFIntegrityError(pf_call_stack, i)
         /\ pf_call_stack' = PFPop(pf_call_stack, i)
         /\ pf_state' = [pf_state EXCEPT ![i] = "suspended"]
    /\ UNCHANGED << pf_parent, pf_end, pf_base >>
    /\ UNCHANGED pf_others

\* next(it) raises StopIteration: gen_next_end(stat, None) checks and pops,
\* the loop is left and the finally block starts with gen_close_begin
PFExhaust ==
    /\ ~ pf_error
    /\ \E i \in PFNodes :
         /\ PFInNext(i)
         /\ ~ PFExceptionIn(i)
         /\ pf_error' = PFIntegrityError(pf_call_stack, i)
         /\ pf_call_stack' = IF PFIntegrityError(pf_call_stack, i)
                             THEN pf_call_stack
                             ELSE Append(PFPop(pf_call_stack, i), i)
         /\ pf_state' = [pf_state EXCEPT ![i] = "finishing"]
         /\ pf_end' = [pf_end EXCEPT ![i] = "exhausted"]
    /\ UNCHANGED << pf_parent, pf_base >>
    /\ UNCHANGED pf_others

\* next(it) raises another exception, its own or one of a generator it
\* consumes: the exception leaves the try of the loop, where no handler
\* calls gen_next_end, and the finally block starts with gen_close_begin
PFRaise ==
    /\ ~ pf_error
    /\ \E i \in PFNodes :
         /\ PFInNext(i)
         /\ pf_call_stack' = Append(pf_call_stack, i)
         /\ pf_state' = [pf_state EXCEPT ![i] = "finishing"]
         /\ pf_end' = [pf_end EXCEPT ![i] = "raised"]
    /\ UNCHANGED << pf_parent, pf_base, pf_error >>
    /\ UNCHANGED pf_others

\* the one that holds generator i, suspended at its yield, stops early:
\* close() on it, by the consumer at work, by the close() of the consumer
\* that unwinds, or when the generator is released after its consumer ended.
\* GeneratorExit is raised at the yield and the finally block starts with
\* gen_close_begin
PFClose ==
    /\ ~ pf_error
    /\ \E i \in PFNodes :
         /\ pf_state[i] = "suspended"
         /\ \/ PFConsumerAt(i) /\ (pf_parent[i] # 0 => ~ PFExceptionIn(pf_parent[i]))
            \/ /\ pf_parent[i] # 0
               /\ pf_state[pf_parent[i]] = "finishing"
               /\ pf_end[pf_parent[i]] # "raised"
               /\ PFRuns(pf_parent[i])
            \/ /\ pf_parent[i] # 0
               /\ pf_state[pf_parent[i]] = "finished"
               /\ \A j \in PFNodes : ~ PFInBody(j)
         /\ pf_call_stack' = Append(pf_call_stack, i)
         /\ pf_state' = [pf_state EXCEPT ![i] = "finishing"]
         /\ pf_end' = [pf_end EXCEPT ![i] = "closed"]
    /\ UNCHANGED << pf_parent, pf_base, pf_error >>
    /\ UNCHANGED pf_others

\* the generators the close() of the wrapped generator of i unwinds
PFToUnwind(i) ==
    IF pf_end[i] = "raised" THEN {}
    ELSE { c \in PFChildren(i) : pf_state[c] = "suspended" }

\* the end of the finally block: it.close() has returned and gen_close_end
\* checks and pops; wrap ends
PFEnd ==
    /\ ~ pf_error
    /\ \E i \in PFNodes :
         /\ pf_state[i] = "finishing"
         /\ PFRuns(i)
         /\ PFToUnwind(i) = {}
         /\ pf_error' = PFIntegrityError(pf_call_stack, i)
         /\ pf_call_stack' = PFPop(pf_call_stack, i)
         /\ pf_state' = [pf_state EXCEPT ![i] = "finished"]
    /\ UNCHANGED << pf_parent, pf_end, pf_base >>
    /\ UNCHANGED pf_others

PFNext ==
    \/ PFNextCall
    \/ PFYield
    \/ PFExhaust
    \/ PFRaise
    \/ PFClose
    \/ PFEnd

-----------------------------------------------------------------------------
(* Specifications: one operator runs, the others stay as constructed *)

\* no buffered reader or writer is in use, no plan is being invalidated and
\* no profiled generator exists
UtilIdle == BWIdle /\ BRIdle /\ QCIdle /\ PFIdle

SortInit == MSInit /\ HJIdle /\ AGIdle /\ PLIdle /\ TFIdle /\ UtilIdle

SpecSort == SortInit /\ [][MSNext]_vars

\* the sort is constructed with any final-pass budget the constructor takes
SortAnyBudgetInit == MSAnyBudgetInit /\ HJIdle /\ AGIdle /\ PLIdle /\ TFIdle /\ UtilIdle

SpecSortAnyBudget == SortAnyBudgetInit /\ [][MSNext]_vars

JoinInit == HJInit /\ MSIdle /\ AGIdle /\ PLIdle /\ TFIdle /\ UtilIdle

SpecJoin == JoinInit /\ [][HJNext]_vars

\* a row no input holds: what an earlier execute left in a temp file
LeftoverRow == << 1, 0 >>

\* an earlier execute of the sort ended early or failed: run files of any
\* level and run number are still in the temp transaction
MSLeftoverFiles ==
    [ n \in (0..MaxLevel) \X (0..MaxLen) |-> << LeftoverRow >> ]

RerunSortBudgets == {3}
RerunSortFinalBudgets == {0, 1}
RerunSortRowSizes == {3, 6, 7}

\* the sort is executed again over the files left
MSRerunInit ==
    /\ ms_B \in RerunSortBudgets
    /\ \E bf_arg \in RerunSortFinalBudgets : ms_Bf = MSInitBf(ms_B, bf_arg)
    /\ ms_exprs \in SortSpecs
    /\ ms_rowsize \in RerunSortRowSizes
    /\ ms_input \in SortInputs
    /\ ms_pc = "pass0"
    /\ ms_pos = 0
    /\ ms_runs = <<>>
    /\ ms_new_runs = <<>>
    /\ ms_level = 0
    /\ ms_group = 0
    /\ ms_files = MSLeftoverFiles
    /\ ms_rest = <<>>
    /\ ms_out = <<>>
    /\ ms_mem = 0

\* a sort whose execute is over and is not run again
MSOver ==
    /\ ms_B = 3
    /\ ms_Bf = MSInitBf(3, 0)
    /\ ms_exprs = << [col |-> 1, asc |-> TRUE] >>
    /\ ms_rowsize = 1
    /\ ms_input = <<>>
    /\ ms_pc = "done"
    /\ ms_pos = 0
    /\ ms_runs = <<>>
    /\ ms_new_runs = <<>>
    /\ ms_level = 1
    /\ ms_group = 0
    /\ ms_files = << >>
    /\ ms_rest = <<>>
    /\ ms_out = <<>>
    /\ ms_mem = 0

RerunJoinBudgets == {2}
RerunJoinRowSizes == {1, 3}
RerunPartitionIds == 0..4

\* an earlier execute of the join ended early or failed: partition files
\* of either side, any depth and id are still in the temp transaction
HJLeftoverFiles ==
    [ n \in {"left", "right"} \X (0..(DEFAULT_HASH_MAX_DEPTH - 1)) \X RerunPartitionIds
        |-> << LeftoverRow >> ]

\* the state of execute when it starts, but for the files
HJStartOver(pc, files) ==
    /\ hj_hash = << >>
    /\ hj_pc = pc
    /\ hj_lparts = << >>
    /\ hj_rparts = << >>
    /\ hj_files = files
    /\ hj_depth = 0
    /\ hj_large = <<>>
    /\ hj_idx = 0
    /\ hj_llarge = <<>>
    /\ hj_todo = {}
    /\ hj_done = {}
    /\ hj_pending = <<>>
    /\ hj_susp = FALSE
    /\ hj_out = <<>>

\* the join is executed again over the files left
HJRerunInit ==
    /\ hj_B \in RerunJoinBudgets
    /\ hj_rowsize \in RerunJoinRowSizes
    /\ hj_left \in JoinInputs(MaxLeft)
    /\ hj_right \in JoinInputs(MaxRight)
    /\ HJStartOver("part0", HJLeftoverFiles)

\* a join whose execute is over and is not run again
HJOver ==
    /\ hj_B = 1
    /\ hj_rowsize = 1
    /\ hj_left = <<>>
    /\ hj_right = <<>>
    /\ HJStartOver("done", << >>)

\* one of the two operators is executed again after an execute that left
\* its temp files behind
RerunInit ==
    /\ \/ MSRerunInit /\ HJOver
       \/ HJRerunInit /\ MSOver
    /\ AGIdle /\ PLIdle /\ TFIdle /\ UtilIdle

RerunNext == MSNext \/ HJNext

SpecRerun == RerunInit /\ [][RerunNext]_vars

\* where execute is in its partitioning phase: the phase, the depth of the
\* outer loop and the index of the inner loop
hj_position == << hj_pc, hj_depth, hj_idx >>

\* a step of the partitioning phase as it shows on the position: the first
\* pass, a replay (which may raise) or the end of a depth
HJPartitioning ==
    /\ hj_pc \in {"part0", "repart"}
    /\ hj_pc' \in {"repart", "probe", "error"}
    /\ hj_depth' \in {hj_depth, hj_depth + 1}
    /\ hj_idx' \in {0, hj_idx, hj_idx + 1}

\* the partitioning phase has no yield: once execute is started it runs
\* until probing begins or an exception leaves execute
SpecJoinLive == JoinInit /\ [][HJNext]_vars /\ WF_hj_position(HJPartitioning)

\* the join runs with three memory blocks
JoinWideInit == HJWideInit /\ MSIdle /\ AGIdle /\ PLIdle /\ TFIdle /\ UtilIdle

SpecJoinWide == JoinWideInit /\ [][HJNext]_vars

AggrPopInit == AGInit /\ MSIdle /\ HJIdle /\ PLIdle /\ TFIdle /\ UtilIdle

SpecAggr == AggrPopInit /\ [][AGNext]_vars

PlanInit == PLIdle /\ MSIdle /\ HJIdle /\ AGIdle /\ TFIdle /\ UtilIdle

SpecPlan == PlanInit /\ [][PLNext]_vars

\* two operators are live at once and their execute generators are driven
\* in any interleaving
TmpInit == TFInit /\ MSIdle /\ HJIdle /\ AGIdle /\ PLIdle /\ UtilIdle

SpecTmp == TmpInit /\ [][TFNext]_vars

OperatorsIdle == MSIdle /\ HJIdle /\ AGIdle /\ PLIdle /\ TFIdle /\ PFIdle

\* a buffered writer is written to and flushed by its owner
WriterInit == BWInit /\ BRIdle /\ QCIdle /\ OperatorsIdle

SpecWriter == WriterInit /\ [][BWNext]_vars

\* a consumer drives iter_buffer over an input
ReaderInit == BRInit /\ BWIdle /\ QCIdle /\ OperatorsIdle

SpecReader == ReaderInit /\ [][BRNext]_vars

\* a plan is constructed, its properties are accessed and invalidated
CacheInit == QCInit /\ BWIdle /\ BRIdle /\ OperatorsIdle

SpecCache == CacheInit /\ [][QCNext]_vars

\* a driver consumes the profiled generators of a plan
ProfileInit ==
    /\ PFInit
    /\ MSIdle /\ HJIdle /\ AGIdle /\ PLIdle /\ TFIdle
    /\ BWIdle /\ BRIdle /\ QCIdle

SpecProfile == ProfileInit /\ [][PFNext]_vars

-----------------------------------------------------------------------------
(* Properties of MergeSortPop *)

\* r may precede s in an output sorted by the keys: lexicographic order on
\* the key columns, each ascending or descending
RECURSIVE LexLeq(_, _, _)
LexLeq(r, s, exprs) ==
    IF exprs = <<>> THEN TRUE
    ELSE LET e == Head(exprs)
         IN  IF ExprValue(r, e) = ExprValue(s, e) THEN LexLeq(r, s, Tail(exprs))
             ELSE IF e.asc THEN ExprValue(r, e) < ExprValue(s, e)
                           ELSE ExprValue(r, e) > ExprValue(s, e)

SameKeys(r, s, exprs) ==
    \A j \in 1..Len(exprs) : ExprValue(r, exprs[j]) = ExprValue(s, exprs[j])

\* C1: when execute has been driven to exhaustion, the rows it yielded are a
\* permutation (as a multiset) of the input rows and every adjacent pair is
\* in the order of the sort keys.
C1_SortedPermutation ==
    ms_pc = "done" =>
        /\ SeqToBag(ms_out) = SeqToBag(ms_input)
        /\ \A i \in 1..(Len(ms_out) - 1) : LexLeq(ms_out[i], ms_out[i + 1], ms_exprs)

\* C1 witness: a sort that went through two intermediate merge levels and
\* had to reorder its input
C1_Witness ==
    /\ ms_pc = "done"
    /\ ms_level >= 3
    /\ Len(ms_out) >= 4
    /\ ms_out # ms_input

\* C2: the sort is stable: of two yielded rows that are equal on every sort
\* key, the one that came first in the input comes first in the output.
C2_Stable ==
    ms_pc = "done" =>
        \A i, j \in 1..Len(ms_out) :
            (i < j /\ SameKeys(ms_out[i], ms_out[j], ms_exprs)) => ms_out[i][2] < ms_out[j][2]

\* C2 witness: every pass-0 run held one row, two merge levels ran, and two
\* rows with equal keys came out
C2_Witness ==
    /\ ms_pc = "done"
    /\ ms_level >= 3
    /\ 2 * ms_rowsize > ms_B * BLOCK_SIZE
    /\ \E i, j \in 1..Len(ms_out) : i < j /\ SameKeys(ms_out[i], ms_out[j], ms_exprs)

\* C3 as claimed: at every point the operator holds at most B blocks.
C3_BudgetB == ms_mem <= ms_B

\* C3 amended: at every point the operator holds at most max(B, B_f)
\* blocks: at most B in pass 0 and in every intermediate merge (runs read
\* plus the output buffer), and at most B_f runs in the final merge.
C3_BudgetMax ==
    /\ ms_mem <= Max(ms_B, ms_Bf)
    /\ ms_pc \in {"pass0", "merge"} => ms_mem <= ms_B
    /\ ms_pc = "final" => ms_mem <= ms_Bf

\* C3 witness: a final merge that reads more than B runs
C3_Witness ==
    /\ ms_pc = "final"
    /\ ms_mem > ms_B
    /\ ms_mem = ms_Bf

\* C8: when execute has exited, by exhaustion or because the consumer
\* closed it, no run file it created is left.
C8_NoRunFileLeft ==
    ms_pc \in {"done", "closed"} => DOMAIN ms_files = {}

-----------------------------------------------------------------------------
(* Properties of HashEqJoinPop *)

\* the join of the two inputs on the equi-keys, as a sequence in some order
JoinPairs ==
    { hj_left[i] \o hj_right[j] :
        << i, j >> \in { ij \in (DOMAIN hj_left) \X (DOMAIN hj_right) :
                           hj_left[ij[1]][1] = hj_right[ij[2]][1] } }

\* the rows of a partition of one side
PartRows(parts, p) == Range(hj_files[parts[p]])

\* C4: execute can be driven to exhaustion on every input, and has then
\* yielded exactly the multiset of the concatenations of a left and a right
\* row with equal keys, each once.
C4_JoinMultiset ==
    /\ hj_pc # "error"
    /\ hj_pc = "done" =>
          /\ Range(hj_out) = JoinPairs
          /\ Len(hj_out) = Cardinality(JoinPairs)

C6_OnlyEqualKeys ==
    \A n \in DOMAIN hj_out :
        \E i \in DOMAIN hj_left, j \in DOMAIN hj_right :
            /\ hj_out[n] = hj_left[i] \o hj_right[j]
            /\ hj_left[i][1] = hj_right[j][1]

\* C6 witness: a partition was probed in which a left and a right row with
\* different keys have the same probing hash, and rows have been yielded
C6_Witness ==
    /\ hj_pc = "probe"
    /\ Len(hj_out) > 0
    /\ \E p \in hj_done :
          \E l \in PartRows(hj_lparts, p), r \in PartRows(hj_rparts, p) :
             /\ l[1] # r[1]
             /\ hj_hash[ProbingString(l[1])] = hj_hash[ProbingString(r[1])]

\* C7: when execute has exited - by exhaustion, because the consumer closed
\* it, or by an exception - no partition file it created is left.
C7_NoPartitionFileLeft ==
    hj_pc \in {"done", "closed", "error"} => DOMAIN hj_files = {}

-----------------------------------------------------------------------------
(* Properties of AggrPop *)

\* all input rows with the same group-by values are consecutive
Grouped ==
    \A i, j, k \in DOMAIN ag_input :
        (i < j /\ j < k /\ GroupbyVals(ag_input[i]) = GroupbyVals(ag_input[k]))
            => GroupbyVals(ag_input[j]) = GroupbyVals(ag_input[i])

\* the distinct group-by values of the rows, in the order they first appear
RECURSIVE FirstKeys(_)
FirstKeys(rows) ==
    IF rows = <<>> THEN <<>>
    ELSE LET before == FirstKeys(SubSeq(rows, 1, Len(rows) - 1))
             key    == GroupbyVals(rows[Len(rows)])
         IN  IF key \in Range(before) THEN before ELSE Append(before, key)

\* the group-by part of the rows yielded
OutKeys == [ n \in DOMAIN ag_out |-> SubSeq(ag_out[n], 1, Len(ag_groupby)) ]

\* the maximal runs of consecutive rows with equal group-by values
RECURSIVE RunsOf(_)
RunsOf(rows) ==
    IF rows = <<>> THEN <<>>
    ELSE LET before == RunsOf(SubSeq(rows, 1, Len(rows) - 1))
             row    == rows[Len(rows)]
         IN  IF before # <<>> /\ GroupbyVals(before[Len(before)][1]) = GroupbyVals(row)
             THEN [ before EXCEPT ![Len(before)] = Append(@, row) ]
             ELSE Append(before, << row >>)

\* the rows of the n-th group execute deals with; with no GROUP BY the one
\* group exists also when it has no row
GroupRows(n) ==
    IF Len(ag_groupby) = 0 THEN ag_input ELSE RunsOf(ag_input)[n]

\* finalize(fold(add, init, inputs)) of an aggregate over rows
RECURSIVE FoldAdd(_, _, _)
FoldAdd(a, state, rows) ==
    IF rows = <<>> THEN state
    ELSE FoldAdd(a, AggrAdd(a, state, rows[1][2]), Tail(rows))

BatchAggregate(a, rows) == AggrFinalize(a, FoldAdd(a, AggrInit(a), rows))

\* C9 as claimed: on a grouped input, the exhausted execute has yielded one
\* row for every distinct group key present in the input, in the order of
\* first appearance, and no other row.
C9_OneRowPerKey ==
    (ag_pc = "done" /\ Grouped) => OutKeys = FirstKeys(ag_input)

\* C9 amended: as claimed, except that with no GROUP BY expressions and an
\* empty input one row is yielded, for the group with the empty key that no
\* input row carries.
C9_OneRowPerKeyOrEmptyTotal ==
    (ag_pc = "done" /\ Grouped) =>
        IF Len(ag_groupby) = 0 /\ ag_input = <<>>
        THEN OutKeys = << <<>> >>
        ELSE OutKeys = FirstKeys(ag_input)

\* C9 witness: a grouped input whose groups do not come in ascending order
\* and of which one has several rows
C9_Witness ==
    /\ ag_pc = "done"
    /\ Len(ag_groupby) = 1
    /\ Grouped
    /\ Len(ag_out) >= 2
    /\ Len(ag_input) > Len(ag_out)
    /\ ag_out[1][1] > ag_out[2][1]

\* C10: in every row yielded, the value of each incremental aggregate is
\* finalize(fold(add, init, .)) over the rows of its group and no other:
\* the run of consecutive rows the group was built from, which on a grouped
\* input is every row with the group's key.
C10_IncrementalIsBatch ==
    \A n \in DOMAIN ag_out :
        /\ \A i \in DOMAIN AggrExprs :
              IsIncremental(AggrExprs[i]) =>
                 ag_out[n][Len(ag_groupby) + i] = BatchAggregate(AggrExprs[i], GroupRows(n))
        /\ Grouped =>
              GroupRows(n) = SelectSeq(ag_input, LAMBDA row : GroupbyVals(row) = OutKeys[n])

\* C10 witness: two groups were yielded, the first made of several rows
\* with different values
C10_Witness ==
    /\ Len(ag_groupby) = 1
    /\ Len(ag_out) >= 2
    /\ Grouped
    /\ Len(GroupRows(1)) >= 2
    /\ \E r, t \in Range(GroupRows(1)) : r[2] # t[2]

\* the values of the second column of rows, in their order
ValuesOf(rows) == [ n \in DOMAIN rows |-> rows[n][2] ]

\* C11: when a group has just been finalized, each aggregate that is not
\* incremental had its add closure applied to the group's values in
\* non-decreasing order: every occurrence once, or, for a DISTINCT
\* aggregate, every distinct value once.
C11_FedSortedOnce ==
    ag_pc \in {"yield", "yieldlast"} =>
        \A i \in DOMAIN AggrExprs :
            ~IsIncremental(AggrExprs[i]) =>
                LET fed  == ag_fed[i]
                    vals == ValuesOf(GroupRows(Len(ag_out)))
                IN  /\ \A n \in 1..(Len(fed) - 1) : fed[n] <= fed[n + 1]
                    /\ IF IsDistinct(AggrExprs[i])
                       THEN /\ Range(fed) = Range(vals)
                            /\ Len(fed) = Cardinality(Range(vals))
                       ELSE SeqToBag(fed) = SeqToBag(vals)

\* C11 witness: a group is finalized whose values arrived in decreasing
\* order and one of them twice
C11_Witness ==
    /\ ag_pc \in {"yield", "yieldlast"}
    /\ Len(ag_groupby) = 1
    /\ LET vals == ValuesOf(GroupRows(Len(ag_out)))
       IN  /\ \E n \in 1..(Len(vals) - 1) : vals[n] > vals[n + 1]
           /\ Len(vals) > Cardinality(Range(vals))

\* C12: with no GROUP BY expressions and an empty input, the exhausted
\* execute has yielded exactly one row, made of finalize(init) of every
\* aggregate.
C12_EmptyTotalRow ==
    (ag_pc = "done" /\ Len(ag_groupby) = 0 /\ ag_input = <<>>) =>
        ag_out = << [ i \in DOMAIN AggrExprs |->
                        AggrFinalize(AggrExprs[i], AggrInit(AggrExprs[i])) ] >>

\* C12 witness: execute over no GROUP BY and no row has returned after its
\* one yield
C12_Witness ==
    /\ ag_pc = "done"
    /\ Len(ag_groupby) = 0
    /\ ag_input = <<>>
    /\ Len(ag_out) = 1

-----------------------------------------------------------------------------
(* Properties of plan construction *)

\* the operator the last constructor call returned
LastNode == pl_nodes[Len(pl_nodes)]

\* C13: a MergeSortPop constructor call raises ExecutorException exactly
\* when num_memory_blocks <= 2, and then no operator comes to exist and
\* nothing is compiled; otherwise it returns the compiled operator, whose
\* final-pass budget is num_memory_blocks when none was given.
C13_SortNeedsThreeBlocks ==
    [][ pl_call'.kind = "MergeSort" =>
          /\ (pl_raised' = "ExecutorException") <=> (pl_call'.B <= 2)
          /\ pl_raised' = "ExecutorException" => pl_nodes' = pl_nodes
          /\ pl_raised' = "none" =>
                /\ Len(pl_nodes') = Len(pl_nodes) + 1
                /\ SubSeq(pl_nodes', 1, Len(pl_nodes)) = pl_nodes
                /\ LET new == pl_nodes'[Len(pl_nodes')]
                   IN  /\ new.kind = "MergeSort"
                       /\ new.compiled
                       /\ new.B = pl_call'.B
                       /\ new.Bf = IF pl_call'.bf_arg = 0 THEN pl_call'.B
                                   ELSE pl_call'.bf_arg ]_vars

\* C13 witness: a sort with two blocks was refused after a sort with three
\* blocks and no final-pass budget was constructed
C13_Witness ==
    /\ pl_call.kind = "MergeSort"
    /\ pl_call.B = 2
    /\ pl_raised = "ExecutorException"
    /\ Len(pl_nodes) >= 2
    /\ LastNode.kind = "MergeSort"
    /\ LastNode.B = 3
    /\ LastNode.Bf = 3

-----------------------------------------------------------------------------
(* Properties of BufferedReader in MergeSortPop *)

\* C15: the reader of pass 0 raises exactly when it reads a row larger than
\* B x BLOCK_SIZE: execute has then ended with the exception without
\* having yielded a row, and with rows that fit it never raises.
C15_TooBigRowRaises ==
    LET too_big == ms_input # <<>> /\ ms_rowsize > ms_B * BLOCK_SIZE
    IN  /\ ms_pc = "error" => (too_big /\ ms_out = <<>>)
        /\ too_big => /\ ms_pc \in {"pass0", "error"}
                      /\ ms_runs = <<>>
                      /\ ms_out = <<>>

\* C15 witness: execute ended with the exception on an input of several rows
C15_Witness ==
    /\ ms_pc = "error"
    /\ Len(ms_input) >= 2
    /\ ms_rowsize = ms_B * BLOCK_SIZE + 1

-----------------------------------------------------------------------------
(* Properties of QPop.total_memory_blocks_required *)

\* the heaviest sum of memory_blocks_required() along a path from the
\* operator at position i down to a leaf
RECURSIVE HeaviestPath(_, _)
HeaviestPath(nodes, i) ==
    MemoryBlocksRequired(nodes[i])
    + (IF Len(nodes[i].children) = 0 THEN 0
       ELSE IF Len(nodes[i].children) = 1 THEN HeaviestPath(nodes, nodes[i].children[1])
       ELSE Max(HeaviestPath(nodes, nodes[i].children[1]),
                HeaviestPath(nodes, nodes[i].children[2])))

\* the downward paths from the operator at position i to the one at j, as
\* sequences of child indices
RECURSIVE PathsTo(_, _, _)
PathsTo(nodes, i, j) ==
    (IF i = j THEN { <<>> } ELSE {})
    \cup UNION { { << k >> \o p : p \in PathsTo(nodes, nodes[i].children[k], j) } :
                 k \in DOMAIN nodes[i].children }

\* the sum of f over the positions 1..n
RECURSIVE SumUpTo(_, _)
SumUpTo(f, n) == IF n = 0 THEN 0 ELSE f[n] + SumUpTo(f, n - 1)

\* memory_blocks_required() summed over every occurrence of an operator in
\* the plan tree rooted at position i
WholeTree(nodes, i) ==
    SumUpTo([ j \in DOMAIN nodes |->
                Cardinality(PathsTo(nodes, i, j)) * MemoryBlocksRequired(nodes[j]) ],
            Len(nodes))

-----------------------------------------------------------------------------
(* Properties of QPop.estimated_cost *)

\* blocks_extra_init.overall summed once per operator of the plan rooted at
\* position i that has first-pass extras
ExtraInitTotal(nodes, i) ==
    SumUpTo([ j \in DOMAIN nodes |->
                IF j \in Reachable(nodes, i) /\ nodes[j].extra # NULL
                THEN nodes[j].extra ELSE 0 ],
            Len(nodes))

\* C17: estimated_cost of every plan root returns the overall estimate of
\* the root plus the first-pass extras of the plan, each operator that has
\* extras counted once, however many parents it has and whatever the value
\* of the extras of the other operators
C17_CostCountsExtrasOnce ==
    \A i \in DOMAIN pl_nodes :
        ~ EstimatedRaises(pl_nodes, i) =>
            /\ EstimatedCost(pl_nodes, i).raised = "none"
            /\ EstimatedCost(pl_nodes, i).cost
                  = Overall(pl_nodes, i) + ExtraInitTotal(pl_nodes, i)

-----------------------------------------------------------------------------
(* Properties of the ordering MergeSortPop declares *)

\* the orderings an input of two columns may declare
InputOrderings ==
    LET entries == { [col |-> c, asc |-> a] : c \in {1, 2}, a \in BOOLEAN }
    IN  { <<>> } \cup { << e >> : e \in entries }
                 \cup { << e, f >> : e \in entries, f \in entries }

\* rows is lexicographically non-decreasing on the ordering
SortedBy(rows, ordering) ==
    \A i \in 1..(Len(rows) - 1) : LexLeq(rows[i], rows[i + 1], ordering)

\* C18: whatever ordering the input declares and is sorted by, the rows an
\* exhausted execute yielded are sorted by the ordering MergeSortPop
\* declares: the sort keys up to the first that is not an input column,
\* then, if there was none, the unused part of the input's ordering.
C18_DeclaredOrderingSound ==
    ms_pc = "done" =>
        \A ordering \in InputOrderings :
            SortedBy(ms_input, ordering) =>
                SortedBy(ms_out, InferOrderingProps(ms_exprs, ordering))

\* C18 witness: a sort on a column alone that went through a merge level,
\* reordered its input and yielded rows equal on the key, which only the
\* input's own ordering on column 2 keeps apart
C18_Witness ==
    /\ ms_pc = "done"
    /\ ms_level >= 2
    /\ Len(ResolvedKeys(ms_exprs)) = Len(ms_exprs)
    /\ ms_out # ms_input
    /\ \E i \in 1..(Len(ms_out) - 1) : SameKeys(ms_out[i], ms_out[i + 1], ms_exprs)
    /\ Len(InferOrderingProps(ms_exprs, << [col |-> 2, asc |-> TRUE] >>)) = 2

-----------------------------------------------------------------------------
(* Properties of the uniqueness HashEqJoinPop declares *)

\* the column takes pairwise-distinct values across the rows
UniqueIn(rows, col) ==
    \A i, j \in DOMAIN rows : i # j => rows[i][col] # rows[j][col]

\* the sets of columns an input of two columns may declare unique
UniqueDeclarations == SUBSET {1, 2}

\* the sets of columns the rows honour as unique
Honoured(rows) ==
    { u \in UniqueDeclarations : \A col \in u : UniqueIn(rows, col) }

\* C19: whatever unique columns the two inputs declare and honour, every
\* column HashEqJoinPop declares unique - the left ones and the right ones
\* moved by the left width when the join pair is unique on both sides, none
\* otherwise - takes pairwise-distinct values across the rows yielded.
C19_DeclaredUniqueSound ==
    \A left_unique \in Honoured(hj_left), right_unique \in Honoured(hj_right) :
        /\ \A col \in JoinUniqueColumns(left_unique, right_unique, 2) :
              UniqueIn(hj_out, col)
        /\ (1 \in left_unique /\ 1 \in right_unique)
              => JoinUniqueColumns(left_unique, right_unique, 2)
                    = left_unique \cup { 2 + c : c \in right_unique }
        /\ ~ (1 \in left_unique /\ 1 \in right_unique)
              => JoinUniqueColumns(left_unique, right_unique, 2) = {}

\* C19 witness: both inputs have two rows and unique join keys, and the
\* join has yielded two rows and ended
C19_Witness ==
    /\ hj_pc = "done"
    /\ Len(hj_out) = 2
    /\ {1, 2} \in Honoured(hj_left)
    /\ {1, 2} \in Honoured(hj_right)

-----------------------------------------------------------------------------
(* Properties of the uniqueness AggrPop declares *)

\* C20: with one GROUP BY expression the first output column is declared
\* unique; and on an input whose equal group keys are consecutive, whatever
\* unique columns the input declares and honours, every column AggrPop
\* declares unique takes pairwise-distinct values across the rows yielded.
C20_DeclaredUniqueSound ==
    \A input_unique \in Honoured(ag_input) :
        /\ Len(ag_groupby) = 1 => 1 \in AggrUniqueColumns(ag_groupby, input_unique)
        /\ Grouped =>
              \A col \in AggrUniqueColumns(ag_groupby, input_unique) :
                  UniqueIn(ag_out, col)

\* C20 witness: a grouped input of three rows in two groups, aggregated on
\* its one GROUP BY column to the end
C20_Witness ==
    /\ ag_pc = "done"
    /\ ag_groupby = << 1 >>
    /\ Grouped
    /\ Len(ag_input) = 3
    /\ Len(ag_out) = 2

-----------------------------------------------------------------------------
(* Properties of the ordering AggrPop declares *)

\* the ordered_columns and the ordered_asc of a declared ordering
ColumnsOf(ordering) == [ k \in DOMAIN ordering |-> ordering[k].col ]
AscOf(ordering) == [ k \in DOMAIN ordering |-> ordering[k].asc ]

\* the ordering AggrPop declares over an input that declares ordering
AggrDeclared(ordering) ==
    AggrOrderingProps(ag_groupby, ColumnsOf(ordering), AscOf(ordering))

\* the longest prefix of the ordering whose columns are all GROUP BY columns
PreservedPrefixLen(ordering) ==
    CHOOSE n \in 0..Len(ordering) :
        /\ \A k \in 1..n : ordering[k].col \in Range(ag_groupby)
        /\ n < Len(ordering) => ordering[n + 1].col \notin Range(ag_groupby)

\* C21: whatever ordering the input declares and is sorted by, AggrPop
\* declares as many columns as directions: the longest prefix of the
\* input's ordering made of GROUP BY columns, each at its output position
\* and with its direction; and the rows yielded are sorted by it.
C21_DeclaredOrderingSound ==
    \A ordering \in InputOrderings :
        SortedBy(ag_input, ordering) =>
            LET declared == AggrDeclared(ordering)
                n        == PreservedPrefixLen(ordering)
            IN  /\ Len(declared.ordered_columns) = Len(declared.ordered_asc)
                /\ Len(declared.ordered_columns) = n
                /\ \A k \in 1..n :
                      /\ ag_groupby[declared.ordered_columns[k]] = ordering[k].col
                      /\ declared.ordered_asc[k] = ordering[k].asc
                /\ SortedBy(ag_out,
                            [ k \in 1..n |-> [ col |-> declared.ordered_columns[k],
                                               asc |-> declared.ordered_asc[k] ] ])

\* C21 witness: an input sorted descending on column 2, grouped on that
\* column alone, has yielded several groups and ended
C21_Witness ==
    /\ ag_pc = "done"
    /\ ag_groupby = << 2 >>
    /\ Len(ag_out) >= 2
    /\ Len(ag_input) > Len(ag_out)
    /\ SortedBy(ag_input, << [col |-> 2, asc |-> FALSE] >>)
    /\ ag_out[1][1] # ag_out[2][1]

-----------------------------------------------------------------------------
(* Termination of the partitioning phase of HashEqJoinPop *)

\* the left partitions reported too large by the last level partitioned
StillTooLarge == Range(hj_large) \cap DOMAIN hj_lparts \cap DOMAIN hj_rparts

\* a step raises, or moves on to the next depth, or to the next of the
\* partitions to replay at this depth
HJAdvances ==
    \/ hj_pc' = "error"
    \/ (hj_depth' = hj_depth + 1 /\ hj_idx' = 0)
    \/ (hj_depth' = hj_depth /\ hj_idx' = hj_idx + 1 /\ hj_idx' <= Len(hj_large))

\* every step execute takes in its partitioning phase advances
HJEveryStepAdvances ==
    [][ (hj_pc \in {"part0", "repart"}) => (HJPartitioning /\ HJAdvances) ]_vars

\* C22: every step of the partitioning phase advances, so that the phase
\* ends on every input - probing begins, or an
\* exception leaves execute; no partition file is ever created at a depth
\* >= DEFAULT_HASH_MAX_DEPTH; and when probing begins every partition
\* present on both sides is to be probed, those still too large included,
\* and all of them have been probed when execute returns.
C22_PartitioningTerminates ==
    /\ <>(hj_pc \in {"probe", "error"})
    /\ HJEveryStepAdvances
    /\ [](/\ \A f \in DOMAIN hj_files : f[2] < DEFAULT_HASH_MAX_DEPTH
          /\ hj_pc \in {"part0", "repart"} => hj_depth < DEFAULT_HASH_MAX_DEPTH
          /\ hj_pc \in {"probe", "done"} =>
                hj_todo \cup hj_done = (DOMAIN hj_lparts) \cap (DOMAIN hj_rparts)
          /\ hj_pc = "done" => StillTooLarge \subseteq hj_done)

\* C22 witness: all rows of both inputs share one join key, the left
\* partition was still too large after the last level, and it has been
\* probed and has yielded rows
C22_Witness ==
    /\ hj_pc = "done"
    /\ Len(hj_left) >= 2
    /\ Len(hj_right) >= 1
    /\ \A i \in DOMAIN hj_left : hj_left[i][1] = 1
    /\ \A j \in DOMAIN hj_right : hj_right[j][1] = 1
    /\ StillTooLarge # {}
    /\ Len(hj_out) = Len(hj_left) * Len(hj_right)

-----------------------------------------------------------------------------
(* Properties of the temp file names *)

\* the files an operator holds: its runs that are not deleted yet, or the
\* partitions of its two dicts
TmpHeld(op) ==
    IF op.kind = "sort"
    THEN (Names(op.runs) \cup Names(op.new_runs)) \cap op.live
    ELSE { op.lparts[p] : p \in DOMAIN op.lparts }
           \cup { op.rparts[p] : p \in DOMAIN op.rparts }

\* within one dict, and across the two dicts, distinct partitions have
\* distinct files
TmpPartitionsApart(op) ==
    /\ \A p, q \in DOMAIN op.lparts : op.lparts[p] = op.lparts[q] => p = q
    /\ \A p, q \in DOMAIN op.rparts : op.rparts[p] = op.rparts[q] => p = q
    /\ \A p \in DOMAIN op.lparts, q \in DOMAIN op.rparts :
          op.lparts[p] # op.rparts[q]

\* distinct positions of the run lists hold distinct files
TmpRunsApart(op) ==
    LET held == SelectSeq(op.runs \o op.new_runs, LAMBDA n : n \in op.live)
    IN \A i, j \in DOMAIN held : held[i] = held[j] => i = j

\* C23: two live operators never touch each other's temp files: no file an
\* operator creates has the name of a file that is live at that time,
\* whether the same operator or the other one created it
C23_TmpNamesApart ==
    /\ \A o \in DOMAIN tf_ops :
          /\ ~tf_ops[o].shared
          /\ TmpPartitionsApart(tf_ops[o])
          /\ TmpRunsApart(tf_ops[o])
          /\ TmpHeld(tf_ops[o]) \subseteq tf_ops[o].live
    /\ \A o, u \in DOMAIN tf_ops :
          o # u => tf_ops[o].live \cap tf_ops[u].live = {}

\* a merge sort in a merge pass and a join that is re-partitioning hold
\* several files each at the same time
C23_Witness ==
    /\ tf_ops # << >>
    /\ \E o, u \in DOMAIN tf_ops :
          /\ tf_ops[o].kind = "sort"
          /\ tf_ops[o].pc = "merge"
          /\ tf_ops[o].new_runs # << >>
          /\ Cardinality(tf_ops[o].live) >= 2
          /\ tf_ops[u].kind = "join"
          /\ tf_ops[u].pc = "repart"
          /\ tf_ops[u].depth = 2
          /\ Cardinality(tf_ops[u].live) >= 2

-----------------------------------------------------------------------------
(* Properties of BufferedWriter and BufferedReader *)

\* C24: after every write and every flush the rows held in the buffer of a
\* writer with budget B total at most B x BLOCK_SIZE bytes
C24_WriterBufferWithinBudget ==
    /\ BufferBytes(bw_buffer) <= bw_B * BLOCK_SIZE
    /\ bw_num_bytes = BufferBytes(bw_buffer)

\* the buffer holds rows of different sizes after an earlier flush
C24_Witness ==
    /\ bw_file # << >>
    /\ Len(bw_buffer) >= 2
    /\ bw_buffer[1] # bw_buffer[2]

RECURSIVE Concat(_)
Concat(buffers) ==
    IF buffers = << >> THEN << >> ELSE Head(buffers) \o Concat(Tail(buffers))

\* every buffer yielded is non-empty and within the budget
YieldedWithinBudget ==
    \A k \in DOMAIN br_yielded :
       /\ br_yielded[k] # << >>
       /\ RowBytes(br_yielded[k]) <= br_B * BLOCK_SIZE

\* a buffer yielded inside the loop is yielded because the next row of the
\* input does not fit
YieldedWhenFull ==
    \A k \in DOMAIN br_yielded :
       (k < Len(br_yielded) \/ br_pc = "yielded") =>
          LET n == Len(Concat(SubSeq(br_yielded, 1, k)))
          IN RowBytes(br_yielded[k]) + br_input[n + 1][1]
               > br_B * BLOCK_SIZE

\* C25 as stated: the buffers yielded are non-empty and within the budget,
\* and put together they are the rows taken from the input so far
C25_YieldedIsInputConsumed ==
    /\ YieldedWithinBudget
    /\ Concat(br_yielded) = SubSeq(br_input, 1, br_pos)

\* C25: the buffers yielded are non-empty and within the budget, a buffer
\* is yielded inside the loop only when the next row does not fit, and put
\* together they are the rows taken from the input so far less the one row
\* read ahead: the row that did not fit, kept for the next buffer. At the
\* end of the input nothing is left out. When a row exceeds the budget the
\* rows buffered since the last yield are not yielded
C25_YieldedIsInputLessReadAhead ==
    /\ YieldedWithinBudget
    /\ YieldedWhenFull
    /\ br_pc \in {"start", "last", "done"} =>
          Concat(br_yielded) = SubSeq(br_input, 1, br_pos)
    /\ br_pc = "yielded" =>
          /\ br_pos >= 1
          /\ Concat(br_yielded) = SubSeq(br_input, 1, br_pos - 1)
    /\ br_pc = "error" =>
          Concat(br_yielded) \o br_buffer = SubSeq(br_input, 1, br_pos - 1)

\* two buffers were yielded inside the loop, of rows of different sizes
C25_Witness ==
    /\ br_pc = "yielded"
    /\ Len(br_yielded) = 2
    /\ Len(br_yielded[1]) = 2
    /\ br_yielded[1][1][1] # br_yielded[1][2][1]

-----------------------------------------------------------------------------
(* Properties of the cached properties *)

\* C27: void_cached_props never raises, and after it neither compiled nor
\* estimated is cached on the operator nor, unless shallow, on any
\* descendant
C27_VoidSucceedsAndClears ==
    qc_call.op = "void" =>
        /\ ~qc_raised
        /\ \A m \in IF qc_call.shallow THEN {qc_call.n}
                     ELSE QCDescendants(qc_children, qc_call.n) :
              /\ ~qc_cache[m].compiled
              /\ ~qc_cache[m].estimated

\* the call raised on an operator as it is right after construction
C27_RaisedAfterConstruction ==
    /\ qc_call.op = "void"
    /\ qc_raised
    /\ \A m \in QCNodes : ~qc_cache[m].estimated

\* the call raised on a plan with everything cached, at the second visit
\* of the operator that has two parents
C27_RaisedAtSharedOperator ==
    /\ qc_call.op = "void"
    /\ qc_call.n = MaxCacheNodes
    /\ qc_raised
    /\ qc_children = QCShared
    /\ \A m \in QCNodes : ~qc_cache[m].compiled /\ ~qc_cache[m].estimated

-----------------------------------------------------------------------------
(* Properties of the passes of MergeSortPop *)

RECURSIVE Pow(_, _)
Pow(b, e) == IF e = 0 THEN 1 ELSE b * Pow(b, e - 1)

\* max(0, ceil(log_base(num / den))) for num >= 0, den >= 1, base >= 2: the
\* least exponent e with base^e >= num / den
CeilLog(base, num, den) ==
    CHOOSE e \in 0..num :
       /\ Pow(base, e) * den >= num
       /\ \A d \in 0..(e - 1) : Pow(base, d) * den < num

\* 1 + max(0, ceil(log_{B-1}(R / B_f)))
FormulaPasses(R, B, Bf) == 1 + CeilLog(B - 1, R, Bf)

\* the number of runs pass 0 writes for the input
RECURSIVE Pass0Runs(_, _, _, _)
Pass0Runs(input, pos, row_size, max_bytes) ==
    LET r == IterBuffer(input, pos + 1, <<>>, 0, row_size, max_bytes)
    IN IF r.err \/ Len(r.buffer) = 0 THEN 0
       ELSE 1 + Pass0Runs(input, r.pos, row_size, max_bytes)

\* the block counts of which estimated computes as many initial runs as
\* pass 0 wrote
BlockCounts(R, B) == { bc \in 0..(R * B) : CeilDiv(bc, B) = R }

\* execute has returned: level - 1 merge levels were made
MSMergeLoopOver == ms_pc = "done"

RECURSIVE RunsBag(_, _)
RunsBag(files, names) ==
    IF names = << >> THEN EmptyBag
    ELSE SeqToBag(files[Head(names)]) (+) RunsBag(files, Tail(names))

\* the runs a merge step read: the files it deleted
MSRunsRead == (DOMAIN ms_files) \ (DOMAIN ms_files')

\* one iteration of the for loop of a merge pass
MSMergeStep == ms_pc = "merge" /\ ms_group' = ms_group + 1

\* the while loop test is evaluated: after pass 0 and after a merge level
MSLoopTest == ms_pc \in {"pass0", "merge"} /\ ms_level' = ms_level + 1

\* a merge step reads at most B-1 runs, consecutive in run order and of
\* the level below, and writes their rows as one new run of this level
MSMergesConsecutiveRuns ==
    [][ MSMergeStep =>
          /\ \E lo \in DOMAIN ms_runs, hi \in DOMAIN ms_runs :
                /\ lo <= hi
                /\ hi - lo + 1 <= ms_B - 1
                /\ MSRunsRead = { ms_runs[k] : k \in lo..hi }
                /\ SeqToBag(ms_files'[<< ms_level, Len(ms_new_runs) >>])
                      = RunsBag(ms_files, SubSeq(ms_runs, lo, hi))
          /\ \A run \in MSRunsRead : run[1] = ms_level - 1
          /\ (DOMAIN ms_files') \ (DOMAIN ms_files)
                = { << ms_level, Len(ms_new_runs) >> }
          /\ ms_new_runs' = Append(ms_new_runs, << ms_level, Len(ms_new_runs) >>)
      ]_vars

\* merging goes on exactly while the number of runs exceeds B_f
MSMergesWhileOverFinalBudget ==
    [][ MSLoopTest =>
          /\ (Len(ms_runs') > ms_Bf) => ms_pc' = "merge"
          /\ (Len(ms_runs') <= ms_Bf) => ms_pc' = "final"
      ]_vars

\* C28: every intermediate merge reads at most B-1 consecutive runs and
\* writes one new run at the next level; intermediate merging continues
\* exactly while the number of runs exceeds B_f; the final merge reads at
\* most B_f runs
C28_MergeFanIn ==
    /\ MSMergesConsecutiveRuns
    /\ MSMergesWhileOverFinalBudget
    /\ [](ms_pc = "merge" => Len(ms_runs) > ms_Bf)
    /\ [](ms_pc = "final" =>
            /\ Len(ms_runs) <= ms_Bf
            /\ Len(ms_rest) = Len(ms_runs))

\* a merge level with two groups, one of B-1 runs and a shorter one, has
\* been merged and the final merge is streaming
C28_Witness ==
    /\ ms_pc = "final"
    /\ ms_level = 2
    /\ Len(ms_runs) = 2
    /\ ms_B = 4
    /\ Len(ms_out) >= 1

-----------------------------------------------------------------------------
(* Properties of the partition ids of HashEqJoinPop *)

\* one iteration of the inner loop of the multi-pass phase has replayed a
\* parent
HJReplayStep == hj_pc = "repart" /\ hj_idx' = hj_idx + 1

\* the partitions of a dict other than the parent keep their rows
HJOthersUntouched(partitions) ==
    \A p \in (DOMAIN partitions) \ {HJParent} :
       /\ partitions[p] \in DOMAIN hj_files'
       /\ hj_files'[partitions[p]] = hj_files[partitions[p]]

\* C29: the id of a child partition never equals the id of a different
\* partition live on the same side: a replay writes the rows of the parent
\* to files created for that parent at that depth only, and every other
\* partition live at that moment keeps the rows it had
C29_ChildIdsApart ==
    [][ HJReplayStep =>
          /\ HJOthersUntouched(hj_lparts)
          /\ HJOthersUntouched(hj_rparts)
      ]_vars

\* the bytes of rows a left partition holds
LeftPartitionBytes(part_id) == Len(hj_files[hj_lparts[part_id]]) * hj_rowsize

\* C30: when partitioning did not stop because of the depth limit, every
\* left partition that probing loads holds at most (B-1) x BLOCK_SIZE bytes
C30_ProbedPartitionsFit ==
    (hj_pc = "probe" /\ hj_large = << >>) =>
        \A part_id \in hj_todo :
            LeftPartitionBytes(part_id) <= (hj_B - 1) * BLOCK_SIZE

-----------------------------------------------------------------------------
(* A too-large left partition without a right partition *)

\* the multi-pass loop is about to replay a left partition whose id names
\* no right partition
HJRightPartitionMissing ==
    /\ hj_pc = "repart"
    /\ hj_idx < Len(hj_large)
    /\ HJParent \in DOMAIN hj_lparts
    /\ HJParent \notin DOMAIN hj_rparts

\* C31: when a left partition is too large and the right input has no row
\* in the partition with that id, the replay of that partition does not
\* raise.
C31_MissingRightPartitionTolerated ==
    [][ HJRightPartitionMissing => hj_pc' # "error" ]_vars

-----------------------------------------------------------------------------
(* Deletion of the partition files *)

\* the partition files the two dicts hold
HJHeldFiles == Range(hj_lparts) \cup Range(hj_rparts)

\* the entries a partitioning pass added to a dict: _tmp_partition_file is
\* called once for each
NewPartitions(before, after) ==
    { after[k] : k \in (DOMAIN after) \ (DOMAIN before) }

\* the files a step created: the new entries of the two dicts, the parent
\* of a replay being popped before its pass
HJCreatedFiles ==
    LET popped == IF HJReplayStep THEN {HJParent} ELSE {}
    IN  NewPartitions([ k \in (DOMAIN hj_lparts) \ popped |-> hj_lparts[k] ], hj_lparts')
        \cup NewPartitions([ k \in (DOMAIN hj_rparts) \ popped |-> hj_rparts[k] ], hj_rparts')

\* the files a step removed from the temp transaction
HJDeletedFiles == (DOMAIN hj_files) \ (DOMAIN hj_files')

\* execute returns after probing
HJFinishStep == hj_pc = "probe" /\ hj_pc' = "done"

\* a partition is probed: its two files are scanned
HJProbeStep == hj_pc = "probe" /\ hj_done' # hj_done

\* no two ids of a dict hold the same file
OneFilePerId(partitions) ==
    \A p, q \in DOMAIN partitions : partitions[p] = partitions[q] => p = q

\* what a step does to the partition files: a file is created only under a
\* name no existing file has; a replay scans two existing files, those of
\* its parent, and deletes exactly these; probing scans existing files; the
\* end of execute deletes exactly the files the dicts hold, all of them
\* existing and each held once; no other step deletes a file
HJFileStep ==
    /\ HJCreatedFiles \cap DOMAIN hj_files = {}
    /\ HJReplayStep =>
          /\ { hj_lparts[HJParent], hj_rparts[HJParent] } \subseteq DOMAIN hj_files
          /\ HJDeletedFiles = { hj_lparts[HJParent], hj_rparts[HJParent] }
    /\ HJProbeStep =>
          \A p \in hj_done' \ hj_done :
             { hj_lparts[p], hj_rparts[p] } \subseteq DOMAIN hj_files
    /\ HJFinishStep =>
          /\ HJHeldFiles \subseteq DOMAIN hj_files
          /\ HJDeletedFiles = HJHeldFiles
          /\ OneFilePerId(hj_lparts) /\ OneFilePerId(hj_rparts)
    /\ ~(HJReplayStep \/ HJFinishStep) => HJDeletedFiles = {}

\* between the steps of an execute that has not raised: the files that
\* exist are exactly those the dicts hold (a writer appends to these only),
\* and none exists once execute has returned
HJFilesHeld ==
    /\ hj_pc \in {"repart", "probe"} => DOMAIN hj_files = HJHeldFiles
    /\ hj_pc = "done" => DOMAIN hj_files = {}

\* C32: in an execute that is driven to exhaustion every partition file
\* created is deleted exactly once - the two files of a replayed parent by
\* the step that replays it, all others by the step that ends execute after
\* probing - and no file is scanned or appended to after its deletion.
C32_PartitionFilesDeletedOnce ==
    []HJFilesHeld /\ [][HJFileStep]_vars

\* C32 witness: execute has returned after the replay of a parent at depth 1
\* and of one of its children at depth 2 and the probing of a partition
\* whose files depth 2 created
C32_Witness ==
    /\ hj_pc = "done"
    /\ hj_depth = DEFAULT_HASH_MAX_DEPTH
    /\ \E p \in hj_done : hj_lparts[p][2] = 2 /\ hj_rparts[p][2] = 2

-----------------------------------------------------------------------------
(* Deletion of the run files *)

\* pass 0 writes a run
MSPass0Step == ms_pc = "pass0" /\ ms_runs' # ms_runs

\* the final merge is exhausted and execute returns
MSFinalEndStep == ms_pc = "final" /\ ms_pc' = "done"

\* the run file a step created with _tmp_run_file
MSCreatedFiles ==
    IF MSPass0Step THEN { << 0, Len(ms_runs) >> }
    ELSE IF MSMergeStep THEN { << ms_level, Len(ms_new_runs) >> }
    ELSE {}

\* the files a step removed from the temp transaction
MSDeletedFiles == (DOMAIN ms_files) \ (DOMAIN ms_files')

\* no run is listed twice
OneEntryPerRun(runs) ==
    \A i, j \in DOMAIN runs : runs[i] = runs[j] => i = j

\* the runs of this level not merged yet
MSRunsLeft == SubSeq(ms_runs, ms_group * (ms_B - 1) + 1, Len(ms_runs))

\* what a step does to the run files: a run is created only under a name no
\* existing file has; the merge of a group scans existing runs and deletes
\* exactly these; the end of the final merge deletes exactly the last
\* runs, all of them existing and each listed once; no other step deletes
MSFileStep ==
    /\ MSCreatedFiles \cap DOMAIN ms_files = {}
    /\ MSMergeStep =>
          LET runs_subset == Range(RunsSubset(ms_runs, ms_group, ms_B))
          IN  /\ runs_subset # {}
              /\ runs_subset \subseteq DOMAIN ms_files
              /\ MSDeletedFiles = runs_subset
    /\ MSFinalEndStep =>
          /\ Range(ms_runs) \subseteq DOMAIN ms_files
          /\ MSDeletedFiles = Range(ms_runs)
          /\ OneEntryPerRun(ms_runs)
    /\ ~(MSMergeStep \/ MSFinalEndStep) => MSDeletedFiles = {}

\* between the steps of an execute that has not raised: the run files that
\* exist are the runs still to be merged at this level and the new runs (in
\* the final merge, the runs it scans), and none exists once execute has
\* returned
MSFilesHeld ==
    /\ ms_pc = "pass0" => DOMAIN ms_files = Range(ms_runs)
    /\ ms_pc = "merge" => DOMAIN ms_files = Range(MSRunsLeft) \cup Range(ms_new_runs)
    /\ ms_pc = "final" => DOMAIN ms_files = Range(ms_runs)
    /\ ms_pc = "done" => DOMAIN ms_files = {}

\* C33: in an execute that is driven to exhaustion every run file created
\* is deleted exactly once - the runs of a merge group by the step that
\* merges the group, the last runs by the step that ends the final merge -
\* no run is scanned after its deletion, and no run file exists when
\* execute has returned.
C33_RunFilesDeletedOnce ==
    []MSFilesHeld /\ [][MSFileStep]_vars

\* C33 witness: execute has returned after two merge passes, the first of
\* them over two groups, and the final merge
C33_Witness ==
    /\ ms_pc = "done"
    /\ ms_level = 3
    /\ Len(ms_out) = Len(ms_input)

-----------------------------------------------------------------------------
(* The sort buffers of AggrPop across groups *)

\* the rows read so far that belong to the group in progress
CurrentGroupRows ==
    LET runs == RunsOf(SubSeq(ag_input, 1, ag_pos))
    IN  IF runs = <<>> THEN <<>> ELSE runs[Len(runs)]

\* what buffer.add was given for these rows
AddedRows(rows) == [ n \in DOMAIN rows |-> << rows[n][2] >> ]

\* C34: the sort buffer of every aggregate that is not incremental is empty
\* whenever a group is about to start (when execute enters its loop and
\* while it is suspended at the yield of the group before), and inside the
\* loop it holds the values of the rows of the group in progress and no
\* value of an earlier group.
C34_BuffersHoldOwnGroup ==
    \A i \in DOMAIN AggrExprs :
        ~IsIncremental(AggrExprs[i]) =>
            /\ ag_pc = "loop" => ag_buffers[i] = AddedRows(CurrentGroupRows)
            /\ ag_pc \in {"yield", "yieldlast", "done"} => ag_buffers[i] = <<>>

\* C34 witness: a second group has started with one row, after a group of
\* two rows was finalized and yielded
C34_Witness ==
    /\ ag_pc = "loop"
    /\ Len(ag_groupby) = 1
    /\ Len(ag_out) = 1
    /\ ag_pos = 3
    /\ \A i \in DOMAIN AggrExprs :
          ~IsIncremental(AggrExprs[i]) =>
              /\ Len(ag_buffers[i]) = 1
              /\ Len(ag_fed[i]) >= 1
              /\ ag_buffers[i][1][1] \notin Range(ag_fed[i])

-----------------------------------------------------------------------------
(* The number of rows AggrPop yields *)

\* the maximal runs of equal group key among the rows read so far
RunsRead == RunsOf(SubSeq(ag_input, 1, ag_pos))

\* C35: with at least one group-by expression, the group in progress is
\* emitted only when a row of another group or the end of the input is
\* met: inside the loop one row was yielded for each run of equal group
\* key read so far but the last, and once the input has ended one row was
\* yielded for each run, the last of them with the key of the last input
\* row; on an empty input no row is yielded.
C35_OneRowPerRun ==
    Len(ag_groupby) >= 1 =>
        /\ ag_pc = "loop" => Len(ag_out) = Max(Len(RunsRead) - 1, 0)
        /\ ag_pc = "yield" => Len(ag_out) = Len(RunsRead)
        /\ ag_pc \in {"yieldlast", "done"} =>
              /\ Len(ag_out) = Len(RunsOf(ag_input))
              /\ ag_input # <<>> =>
                    OutKeys[Len(ag_out)] = GroupbyVals(ag_input[Len(ag_input)])
              /\ ag_input = <<>> => ag_out = <<>>

\* C35 witness: execute has returned on an input of three runs, the first
\* and the last of the same key
C35_Witness ==
    /\ ag_pc = "done"
    /\ Len(ag_groupby) = 1
    /\ Len(ag_out) = 3
    /\ OutKeys[1] = OutKeys[3]

-----------------------------------------------------------------------------
(* AggrPop is pipelined *)

\* the number of rows in the first k of these runs
RECURSIVE RowsIn(_, _)
RowsIn(runs, k) ==
    IF k = 0 THEN 0 ELSE Len(runs[k]) + RowsIn(runs, k - 1)

\* the number of rows execute has pulled from its input: at the yield
\* inside the loop the for statement has fetched the row at ag_pos + 1
AGPulled == IF ag_pc = "yield" THEN ag_pos + 1 ELSE ag_pos

\* suspended at the yield of group k inside the loop, execute has pulled
\* the rows of the groups 1..k and the first row of group k+1, no more
AGYieldsAtNextGroup ==
    ag_pc = "yield" =>
        LET k == Len(ag_out)
            runs == RunsOf(ag_input)
        IN  /\ k < Len(runs)
            /\ AGPulled = RowsIn(runs, k) + 1
            /\ ag_input[AGPulled] = runs[k + 1][1]

\* a consumer that stops at a yield causes no further row to be pulled, and
\* nothing is yielded after it stopped
AGCloseStep == (ag_pc' = "closed" \/ ag_pc = "closed") => (ag_pos' = ag_pos /\ ag_out' = ag_out)

\* C36: the row of group k is yielded as soon as the first row of group k+1
\* has been read: suspended at that yield execute has pulled no row beyond
\* the first row of group k+1, and when the consumer stops there no further
\* row is pulled.
C36_Pipelined ==
    []AGYieldsAtNextGroup /\ [][AGCloseStep]_vars

\* C36 witness: the consumer stopped at the yield of the first of three
\* groups, before the last two rows of the input were pulled
C36_Witness ==
    /\ ag_pc = "closed"
    /\ Len(ag_out) = 1
    /\ ag_pos = 1
    /\ Len(ag_input) = 3
    /\ Len(RunsOf(ag_input)) = 3

-----------------------------------------------------------------------------
(* Termination of the merge loop *)

\* a merge pass ends: runs = new_runs
MSPassEndStep == ms_pc = "merge" /\ ms_level' = ms_level + 1

\* C37: every merge pass strictly reduces the number of runs, whatever
\* final-pass budget the constructor took, so that the loop
\* while len(runs) > num_memory_blocks_final ends.
C37_MergePassReducesRuns ==
    [][ MSPassEndStep => Len(ms_runs') < Len(ms_runs) ]_vars

\* with a negative final-pass budget the loop test holds whatever the
\* number of runs: a state of the merge loop from which no pass can change
\* the number of runs
MSLoopCannotEnd ==
    /\ ms_pc = "merge"
    /\ ms_Bf < 0
    /\ Len(ms_runs) <= 1
    /\ ms_level > 1

-----------------------------------------------------------------------------
(* What a BufferedWriter appends to its file *)

\* every row written is in the file or still in the buffer, once and in
\* write order: the file followed by the buffer is the rows written
BWNothingLostOrRepeated == bw_file \o bw_buffer = bw_written

\* flush() was called by the owner
BWFlushStep == bw_written' = bw_written /\ bw_num_blocks_flushed' # bw_num_blocks_flushed

\* a flush by the owner leaves the buffer empty and the file holding
\* exactly the rows written; every step only adds rows at the end of the file
BWFlushAppendsAll ==
    /\ BWFlushStep => (bw_buffer' = << >> /\ bw_num_bytes' = 0 /\ bw_file' = bw_written)
    /\ Len(bw_file') >= Len(bw_file)
    /\ SubSeq(bw_file', 1, Len(bw_file)) = bw_file

\* C38: after any sequence of write calls followed by flush, the rows
\* appended to the file are exactly the rows written, each once and in
\* write order, whatever flushes write made in between; flush leaves the
\* buffer empty, and rows appended by one flush are never appended again.
C38_FileIsRowsWritten ==
    []BWNothingLostOrRepeated /\ [][BWFlushAppendsAll]_vars

\* C38 witness: the owner has flushed after four writes of which one
\* flushed by itself, and the file holds rows of different sizes
C38_Witness ==
    /\ Len(bw_written) = 4
    /\ bw_num_blocks_flushed >= 2
    /\ bw_buffer = << >>
    /\ bw_file = bw_written
    /\ \E i, j \in DOMAIN bw_file : bw_file[i] # bw_file[j]

-----------------------------------------------------------------------------
(* Execution over the temp files of an earlier execute *)

\* the rows of the files these names give, of those that exist
RowsHeld(files, names) ==
    UNION { Range(files[n]) : n \in Range(names) \cap DOMAIN files }

\* the rows the sort has read or may read: those of its runs, of the merge
\* in progress and those yielded
MSRowsInUse ==
    RowsHeld(ms_files, ms_runs) \cup RowsHeld(ms_files, ms_new_runs)
    \cup UNION { Range(ms_rest[i]) : i \in DOMAIN ms_rest } \cup Range(ms_out)

\* the rows the join has read or may read: those of the partitions of its
\* two dicts and the rows of the pairs it found
HJRowsInUse ==
    RowsHeld(hj_files, hj_lparts) \cup RowsHeld(hj_files, hj_rparts)

\* C39: an execute that starts with temp files of an earlier execute in the
\* temp transaction reads no row of them - every file it reads it created,
\* and so truncated, itself - and when driven to exhaustion it has yielded
\* what a first execute yields: the stable sort of the input, or the
\* multiset join of the two inputs.
C39_RerunReadsNoLeftover ==
    /\ LeftoverRow \notin MSRowsInUse \cup HJRowsInUse
    /\ ms_pc = "done" => ms_out = StableSort(ms_input, ms_exprs)
    /\ hj_pc = "done" =>
          /\ Range(hj_out) = JoinPairs
          /\ Len(hj_out) = Cardinality(JoinPairs)

\* C39 witness: a sort that ran again over the files left has merged at two
\* levels, re-creating files that were left, and returned while other files
\* left are still there
C39_Witness ==
    /\ ms_pc = "done"
    /\ ms_level = 3
    /\ Len(ms_out) = MaxLen
    /\ ms_out # ms_input
    /\ \E n \in DOMAIN ms_files : LeftoverRow \in Range(ms_files[n])

\* the same for a join that ran again: it has replayed partitions at both
\* depths, probed and returned rows
HJRerunDone ==
    /\ hj_pc = "done"
    /\ hj_depth = DEFAULT_HASH_MAX_DEPTH
    /\ \E p \in hj_done : hj_lparts[p][2] = 2
    /\ Len(hj_out) >= 1
    /\ \E n \in DOMAIN hj_files : LeftoverRow \in Range(hj_files[n])

-----------------------------------------------------------------------------
(* Properties of the profile call stack *)

\* wrap i ends in this step
PFFinishes(i) == pf_state[i] = "finishing" /\ pf_state'[i] = "finished"

\* C40: when a wrapped generator has finished - exhausted, closed early by
\* its consumer, or by an exception raised inside next() of the wrapped
\* generator - the call stack is what it was when the generator was
\* constructed, and no call stack integrity error is raised unless a wrapped
\* generator raised an exception.
C40_CallStackBalanced ==
    /\ [](pf_error => \E i \in PFNodes : pf_end[i] = "raised")
    /\ [][ \A i \in PFNodes : PFFinishes(i) => pf_call_stack' = pf_base[i] ]_vars

\* the case of C40 that fails: the root generator has finished by an
\* exception raised in next() of the generator it consumes, and stats are
\* left on the call stack
PFStatsLeft ==
    /\ pf_state[1] = "finished"
    /\ pf_end[1] = "raised"
    /\ \E c \in PFChildren(1) : pf_state[c] = "finished" /\ pf_end[c] = "raised"
    /\ Len(pf_call_stack) >= 2

\* what holds of the code: a generator that finishes by exhaustion or by
\* close() leaves the call stack as it was when constructed, unless an
\* exception was raised before; no integrity error is ever raised
PFBalancedWithoutException ==
    /\ [](~ pf_error)
    /\ [][ \A i \in PFNodes :
             (PFFinishes(i) /\ \A j \in PFNodes : pf_end[j] # "raised")
                => pf_call_stack' = pf_base[i] ]_vars

\* generators finished the other two ways, nested
PFClosedNested ==
    /\ \A i \in PFNodes : pf_state[i] = "finished"
    /\ pf_end[1] = "closed"
    /\ \E c \in PFNodes : pf_end[c] = "exhausted"
    /\ \E c \in PFNodes : pf_parent[c] # 0 /\ pf_end[c] = "closed"

=============================================================================
